---- MODULE Spec2Model ----
(***************************************************************************)
(* Harvest simulation of complete-script.py / multi_round_analysis.py:     *)
(* AGVs and one FixVehicle run as simpy processes under the run loop of    *)
(* run_scenario / run_scenario_headless.                                   *)
(*                                                                         *)
(* Numbers.  Every location lies on one line (all y coordinates equal), so *)
(* the Euclidean distance sqrt(dx^2 + dy^2) of the source is |dx| and the  *)
(* unit vector dx / dist is +1 or -1: the arithmetic of move_towards is    *)
(* exact over the integers.  Battery and functionality are in percent, as  *)
(* in the source, and the battery margins are the source's.  Speeds, rates, *)
(* durations, the early-repair threshold and the layout are scaled down so *)
(* that wear-out, charging and repair all happen within max_time ticks;    *)
(* the scaled values are the bounds of the model.  As in the source, a leg *)
(* between two places takes several ticks and a repair takes about as long *)
(* as a leg.  The ratio of the cost of one move to the battery margins is  *)
(* not kept: a move costs 0.1 percent in the source and AGV_SPEED *        *)
(* BATTERY_DRAIN percent here, against margins of 2, 5 and 10 percent.     *)
(***************************************************************************)
EXTENDS Integers, Sequences, FiniteSets, TLC

\* ---- configuration (complete-script.py 16-29) ----
AGV_SPEED == 1
FIX_VEHICLE_SPEED == 3
BATTERY_DRAIN == 6
CHARGE_SPEED == 35
HARVEST_TIME == 3
UNLOAD_TIME == 2
REPAIR_TIME == 2
\* percent lost per loop iteration, before quality_factor and variance
FUNC_DECAY_BASE == 20
\* FUNC_DECAY_VAR = 0.3, in tenths
FUNC_DECAY_VAR == 3
HARVEST_POINTS_COUNT == 2
\* run_scenario_headless(max_time=...)
max_time == 20
\* fix_strategy_proactive: time_to_failure < travel_time + LOOKAHEAD
LOOKAHEAD == 2

\* HarvestPoint.items = 10, harvest() returns 10
ITEMS_PER_POINT == 10
\* battery = 100.0, functionality = 100.0
FULL == 100
\* margins of the safety net, of agv_strategy_random_safe, of agv_strategy_smart
SAFETY_MARGIN == 2
RANDOM_MARGIN == 5
SMART_MARGIN == 10
\* FixVehicle.run: target_agv.functionality <= 1.0 (some ticks of wear above 0)
EARLY_REPAIR == 30

\* Python's None, for a Location, an AGV id or a HarvestPoint
None == -1

\* ---- layout (run_scenario 394-415) ----
fix_station_loc == 0
storage_loc == 2
charger_loc == 8
AGVStart(i) == storage_loc + i
PointLoc(k) == storage_loc + 2 + 2 * k

\* the fleet of the reference run: AGV 0 and AGV 1 of range(AGV_COUNT)
FleetIds == {0, 1}

\* random.uniform(0.5, 1.5) and random.uniform(1 - VAR, 1 + VAR), in tenths:
\* the two ends of each interval
QualityFactors == {5, 15}
Variances == {10 - FUNC_DECAY_VAR, 10 + FUNC_DECAY_VAR}

VARIABLES
  agvs,          \* agvs[i]: the fields of AGV i
  points,        \* harvest_points[k]: the fields of HarvestPoint k
  fixer,         \* the fields of the FixVehicle
  agv_strategy,  \* "random_safe" or "smart"
  fix_strategy,  \* "reactive" or "proactive"
  queue,         \* simpy's event queue: <<[time, proc]>> in processing order
  now,           \* env.now
  active,        \* the process whose generator is executing, or None
  pc,            \* pc[p]: where process p's generator continues
  sim_time,      \* the run loop's sim_time
  phase,         \* the run loop: "check", "run" (inside env.run) or "done"
  \* the farm variant (src/simulation_project)
  config,             \* FarmSimulation.config: the scenario dict
  until,              \* the time env.run is asked to run to
  env_now,            \* FarmSimulation.env.now
  env_queue,          \* the farm environment's event queue: <<[time, proc]>>
  running,            \* env.run has been entered and has not returned
  tray_id,            \* tray_generator's tray_id
  trays,              \* trays[k]: the Tray k and the position of its processes
  farm_agvs,          \* resources.agvs[i]: the fields of the farm AGV i
  agv_fleet,          \* resources.agv_fleet: the Store's items and get queue
  planting_stations,  \* resources.planting_stations: users and request queue
  harvest_stations,   \* resources.harvest_stations: users and request queue
  shelves,            \* resources.shelves: the Container's level and queues
  tray_wait_times,    \* FarmSimulation.tray_wait_times
  trays_completed,    \* FarmSimulation.trays_completed
  agv_utilization     \* FarmSimulation.agv_utilization

harvest_vars == <<agvs, points, fixer, agv_strategy, fix_strategy, queue, now, active,
                  pc, sim_time, phase>>

farm_vars == <<config, until, env_now, env_queue, running, tray_id, trays, farm_agvs,
               agv_fleet, planting_stations, harvest_stations, shelves,
               tray_wait_times, trays_completed, agv_utilization>>

vars == <<agvs, points, fixer, agv_strategy, fix_strategy, queue, now, active,
          pc, sim_time, phase, config, until, env_now, env_queue, running, tray_id,
          trays, farm_agvs, agv_fleet, planting_stations, harvest_stations, shelves,
          tray_wait_times, trays_completed, agv_utilization>>

\* the AGVs and harvest points the scenario was set up with
AGVIds == DOMAIN agvs
AGV_COUNT == Cardinality(AGVIds)
PointIds == DOMAIN points
\* the FixVehicle's process, created after the AGVs
FIX == AGV_COUNT
Procs == 0 .. AGV_COUNT

Abs(x) == IF x < 0 THEN -x ELSE x
Min(x, y) == IF x <= y THEN x ELSE y

\* math.sqrt((loc1.x - loc2.x)**2 + (loc1.y - loc2.y)**2) with equal y
get_distance(loc1, loc2) == Abs(loc1 - loc2)

\* ---- HarvestPoint ----
NewHarvestPoint(k) ==
  [location |-> PointLoc(k), items |-> ITEMS_PER_POINT, is_empty |-> FALSE,
   claimed_by |-> None]

\* faulty variant: harvest() hands out the yield without withdrawing it from the point
harvest_keep(p) == [point |-> p, amount |-> ITEMS_PER_POINT]

harvest(p) ==
  IF p.items > 0
    THEN [point |-> [p EXCEPT !.items = 0, !.is_empty = TRUE], amount |-> ITEMS_PER_POINT]
    ELSE [point |-> p, amount |-> 0]

\* ---- AGV ----
NewAGV(i, quality_factor) ==
  [location |-> AGVStart(i), battery |-> FULL, functionality |-> FULL,
   my_decay_rate |-> (FUNC_DECAY_BASE * quality_factor) \div 10,
   state |-> "IDLE", items_carried |-> 0, total_harvested |-> 0,
   distance_traveled |-> 0, target |-> None, current_harvest_point |-> None]

\* faulty variant: the cost of a full step is charged, also for a shorter last step
move_towards_fullstep(agv, target_loc) ==
  IF agv.battery <= 0 \/ agv.state = "BROKEN"
    THEN [agv |-> agv, arrived |-> FALSE]
    ELSE
      LET dx == target_loc - agv.location
          dist == Abs(dx)
          cost == AGV_SPEED * BATTERY_DRAIN
      IN  IF agv.battery - cost <= 0
            THEN [agv |-> [agv EXCEPT !.battery = 0], arrived |-> FALSE]
            ELSE IF dist <= AGV_SPEED
              THEN [agv |-> [agv EXCEPT !.location = target_loc,
                                        !.distance_traveled = @ + dist,
                                        !.battery = @ - cost],
                    arrived |-> TRUE]
              ELSE [agv |-> [agv EXCEPT !.location = @ + (dx \div dist) * AGV_SPEED,
                                        !.distance_traveled = @ + AGV_SPEED,
                                        !.battery = @ - cost],
                    arrived |-> FALSE]

\* faulty variant: the step is taken along target - location with the sign reversed
move_towards_away(agv, target_loc) ==
  IF agv.battery <= 0 \/ agv.state = "BROKEN"
    THEN [agv |-> agv, arrived |-> FALSE]
    ELSE
      LET dx == target_loc - agv.location
          dist == Abs(dx)
          move_dist == Min(dist, AGV_SPEED)
          cost == move_dist * BATTERY_DRAIN
      IN  IF agv.battery - cost <= 0
            THEN [agv |-> [agv EXCEPT !.battery = 0], arrived |-> FALSE]
            ELSE IF dist <= AGV_SPEED
              THEN [agv |-> [agv EXCEPT !.location = target_loc,
                                        !.distance_traveled = @ + dist,
                                        !.battery = @ - cost],
                    arrived |-> TRUE]
              ELSE [agv |-> [agv EXCEPT !.location = @ - (dx \div dist) * AGV_SPEED,
                                        !.distance_traveled = @ + AGV_SPEED,
                                        !.battery = @ - cost],
                    arrived |-> FALSE]

move_towards(agv, target_loc) ==
  IF agv.battery <= 0 \/ agv.state = "BROKEN"
    THEN [agv |-> agv, arrived |-> FALSE]
    ELSE
      LET dx == target_loc - agv.location
          dist == Abs(dx)
          move_dist == Min(dist, AGV_SPEED)
          cost == move_dist * BATTERY_DRAIN
      IN  IF agv.battery - cost <= 0
            THEN [agv |-> [agv EXCEPT !.battery = 0], arrived |-> FALSE]
            ELSE IF dist <= AGV_SPEED
              THEN [agv |-> [agv EXCEPT !.location = target_loc,
                                        !.distance_traveled = @ + dist,
                                        !.battery = @ - cost],
                    arrived |-> TRUE]
              ELSE [agv |-> [agv EXCEPT !.location = @ + (dx \div dist) * AGV_SPEED,
                                        !.distance_traveled = @ + AGV_SPEED,
                                        !.battery = @ - cost],
                    arrived |-> FALSE]

\* releasing the claim on current_harvest_point, when this AGV holds it
HoldsClaim(agv, id, pts) ==
  /\ agv.current_harvest_point # None
  /\ pts[agv.current_harvest_point].claimed_by = id

\* faulty variant: an AGV found BROKEN at the start of an iteration is marked DEAD
Wear_dead(agv, id, pts, variance) ==
  IF agv.state = "BROKEN"
    THEN [agv |-> [agv EXCEPT !.state = "DEAD"], points |-> pts]
  ELSE IF agv.state # "DEAD"
    THEN
      LET decay == (agv.my_decay_rate * variance) \div 10
          f == agv.functionality - decay
      IN  IF f <= 0
            THEN [agv |-> [agv EXCEPT !.functionality = 0, !.state = "BROKEN"],
                  points |-> IF HoldsClaim(agv, id, pts)
                               THEN [pts EXCEPT ![agv.current_harvest_point].claimed_by = None]
                               ELSE pts]
            ELSE [agv |-> [agv EXCEPT !.functionality = f], points |-> pts]
    ELSE [agv |-> agv, points |-> pts]

\* AGV.run, 1. wear and tear
Wear(agv, id, pts, variance) ==
  IF agv.state # "DEAD" /\ agv.state # "BROKEN"
    THEN
      LET decay == (agv.my_decay_rate * variance) \div 10
          f == agv.functionality - decay
      IN  IF f <= 0
            THEN [agv |-> [agv EXCEPT !.functionality = 0, !.state = "BROKEN"],
                  points |-> IF HoldsClaim(agv, id, pts)
                               THEN [pts EXCEPT ![agv.current_harvest_point].claimed_by = None]
                               ELSE pts]
            ELSE [agv |-> [agv EXCEPT !.functionality = f], points |-> pts]
    ELSE [agv |-> agv, points |-> pts]

\* faulty variant: the safety net sends the AGV to the charger but keeps its claim
SafetyNet_keepclaim(agv, id, pts) ==
  IF agv.state \notin {"CHARGING", "MOVING_TO_CHARGER", "IDLE", "DEAD", "BROKEN"}
    THEN
      LET dist_home == get_distance(agv.location, charger_loc)
          min_needed == dist_home * BATTERY_DRAIN + SAFETY_MARGIN
      IN  IF agv.battery < min_needed
            THEN [agv |-> [agv EXCEPT !.state = "MOVING_TO_CHARGER",
                                      !.target = charger_loc],
                  points |-> pts]
            ELSE [agv |-> agv, points |-> pts]
    ELSE [agv |-> agv, points |-> pts]

\* AGV.run, 3. dynamic safety net
SafetyNet(agv, id, pts) ==
  IF agv.state \notin {"CHARGING", "MOVING_TO_CHARGER", "IDLE", "DEAD", "BROKEN"}
    THEN
      LET dist_home == get_distance(agv.location, charger_loc)
          min_needed == dist_home * BATTERY_DRAIN + SAFETY_MARGIN
      IN  IF agv.battery < min_needed
            THEN IF HoldsClaim(agv, id, pts)
                   THEN [agv |-> [agv EXCEPT !.state = "MOVING_TO_CHARGER",
                                             !.target = charger_loc,
                                             !.current_harvest_point = None],
                         points |-> [pts EXCEPT ![agv.current_harvest_point].claimed_by = None]]
                   ELSE [agv |-> [agv EXCEPT !.state = "MOVING_TO_CHARGER",
                                             !.target = charger_loc],
                         points |-> pts]
            ELSE [agv |-> agv, points |-> pts]
    ELSE [agv |-> agv, points |-> pts]

\* ---- strategies ----
\* A decision is "CHARGE", a HarvestPoint or None; a strategy call yields the
\* decision and the harvest points as the call leaves them.
Decision(kind, p, pts) == [kind |-> kind, point |-> p, points |-> pts]

\* faulty variant: the safe/random strategy claims the point it returns
agv_strategy_random_safe_claim(agv, id, pts) ==
  LET pool == {p \in PointIds : ~pts[p].is_empty}
      fits(p) ==
        LET dist_to_point == get_distance(agv.location, pts[p].location)
            dist_point_to_home == get_distance(pts[p].location, charger_loc)
            total_trip_cost == (dist_to_point + dist_point_to_home) * BATTERY_DRAIN
        IN  agv.battery > total_trip_cost + RANDOM_MARGIN
  IN  IF pool = {} THEN {Decision("None", None, pts)}
      ELSE IF \E p \in pool : fits(p)
        THEN {Decision("POINT", p, [pts EXCEPT ![p].claimed_by = id]) :
                p \in {q \in pool : fits(q)}}
        ELSE {Decision("CHARGE", None, pts)}

\* random.shuffle(points), then the first point the battery allows: any of them
agv_strategy_random_safe(agv, id, pts) ==
  LET pool == {p \in PointIds : ~pts[p].is_empty}
      fits(p) ==
        LET dist_to_point == get_distance(agv.location, pts[p].location)
            dist_point_to_home == get_distance(pts[p].location, charger_loc)
            total_trip_cost == (dist_to_point + dist_point_to_home) * BATTERY_DRAIN
        IN  agv.battery > total_trip_cost + RANDOM_MARGIN
  IN  IF pool = {} THEN {Decision("None", None, pts)}
      ELSE IF \E p \in pool : fits(p)
        THEN {Decision("POINT", p, pts) : p \in {q \in pool : fits(q)}}
        ELSE {Decision("CHARGE", None, pts)}

\* faulty variant: the smart strategy without the claimed_by filter
agv_strategy_smart_unfiltered(agv, id, pts) ==
  LET available_points == {p \in PointIds : ~pts[p].is_empty}
      d(p) == get_distance(agv.location, pts[p].location)
  IN  IF available_points = {} THEN {Decision("None", None, pts)}
      ELSE
        LET best_point == CHOOSE p \in available_points :
                            \A q \in available_points : d(p) < d(q) \/ (d(p) = d(q) /\ p <= q)
            total_mission_dist == d(best_point)
                                    + get_distance(pts[best_point].location, storage_loc)
                                    + get_distance(storage_loc, charger_loc)
            required_battery == total_mission_dist * BATTERY_DRAIN + SMART_MARGIN
        IN  IF agv.battery < required_battery
              THEN {Decision("CHARGE", None, pts)}
              ELSE {Decision("POINT", best_point,
                             [pts EXCEPT ![best_point].claimed_by = id])}

\* faulty variant: the smart strategy claims the nearest point before the battery test
agv_strategy_smart_claimfirst(agv, id, pts) ==
  LET available_points == {p \in PointIds : ~pts[p].is_empty /\ pts[p].claimed_by = None}
      d(p) == get_distance(agv.location, pts[p].location)
  IN  IF available_points = {} THEN {Decision("None", None, pts)}
      ELSE
        LET best_point == CHOOSE p \in available_points :
                            \A q \in available_points : d(p) < d(q) \/ (d(p) = d(q) /\ p <= q)
            total_mission_dist == d(best_point)
                                    + get_distance(pts[best_point].location, storage_loc)
                                    + get_distance(storage_loc, charger_loc)
            required_battery == total_mission_dist * BATTERY_DRAIN + SMART_MARGIN
            claimed == [pts EXCEPT ![best_point].claimed_by = id]
        IN  IF agv.battery < required_battery
              THEN {Decision("CHARGE", None, claimed)}
              ELSE {Decision("POINT", best_point, claimed)}

\* min(..., key=distance): the first of the nearest, in list order
agv_strategy_smart(agv, id, pts) ==
  LET available_points == {p \in PointIds : ~pts[p].is_empty /\ pts[p].claimed_by = None}
      d(p) == get_distance(agv.location, pts[p].location)
  IN  IF available_points = {} THEN {Decision("None", None, pts)}
      ELSE
        LET best_point == CHOOSE p \in available_points :
                            \A q \in available_points : d(p) < d(q) \/ (d(p) = d(q) /\ p <= q)
            dist_to_point == d(best_point)
            dist_point_to_storage == get_distance(pts[best_point].location, storage_loc)
            dist_storage_to_charger == get_distance(storage_loc, charger_loc)
            total_mission_dist == dist_to_point + dist_point_to_storage + dist_storage_to_charger
            required_battery == total_mission_dist * BATTERY_DRAIN + SMART_MARGIN
        IN  IF agv.battery < required_battery
              THEN {Decision("CHARGE", None, pts)}
              ELSE {Decision("POINT", best_point,
                             [pts EXCEPT ![best_point].claimed_by = id])}

Strategy(agv, id, pts) ==
  IF agv_strategy = "smart" THEN agv_strategy_smart(agv, id, pts)
                            ELSE agv_strategy_random_safe(agv, id, pts)

\* faulty variant: the first BROKEN AGV of the list, whatever its distance
NearestBroken_first(fx, as) ==
  LET broken == {a \in AGVIds : as[a].state = "BROKEN"}
  IN  IF broken = {} THEN None
      ELSE CHOOSE a \in broken : \A b \in broken : a <= b

NearestBroken(fx, as) ==
  LET broken == {a \in AGVIds : as[a].state = "BROKEN"}
      d(a) == get_distance(fx.location, as[a].location)
  IN  IF broken = {} THEN None
      ELSE CHOOSE a \in broken : \A b \in broken : d(a) < d(b) \/ (d(a) = d(b) /\ a <= b)

\* faulty variant: the reactive strategy looks at the first AGV of the list only
fix_strategy_reactive_head(fx, as) == IF as[0].state = "BROKEN" THEN 0 ELSE None

fix_strategy_reactive(fx, as) == NearestBroken(fx, as)

\* time_to_failure < travel_time + LOOKAHEAD, with
\*   time_to_failure = functionality / my_decay_rate, travel_time = dist / FIX_VEHICLE_SPEED,
\* multiplied through by my_decay_rate * FIX_VEHICLE_SPEED > 0
Predicted(fx, agv) ==
  LET dist == get_distance(fx.location, agv.location)
  IN  agv.functionality * FIX_VEHICLE_SPEED
        < dist * agv.my_decay_rate + LOOKAHEAD * agv.my_decay_rate * FIX_VEHICLE_SPEED

fix_strategy_proactive(fx, as) ==
  IF NearestBroken(fx, as) # None THEN NearestBroken(fx, as)
  ELSE
    LET due == {a \in AGVIds : as[a].state # "DEAD" /\ Predicted(fx, as[a])}
    IN  IF due = {} THEN None ELSE CHOOSE a \in due : \A b \in due : a <= b

FixStrategy(fx, as) ==
  IF fix_strategy = "proactive" THEN fix_strategy_proactive(fx, as)
                                ELSE fix_strategy_reactive(fx, as)

\* ---- FixVehicle ----
\* `arrived` is the local of FixVehicle.run; `reached` records that move_towards
\* has returned True for the current target since the vehicle was sent to it;
\* `repairing_since` is env.now at the entry to REPAIRING, None outside REPAIRING
NewFixVehicle ==
  [location |-> fix_station_loc, home_loc |-> fix_station_loc, state |-> "IDLE",
   target_agv |-> None, arrived |-> FALSE, reached |-> FALSE, repairing_since |-> None]

\* faulty variant: a step that does not reach the target also reports arrival
fix_move_towards_early(fx, target_loc) ==
  LET dx == target_loc - fx.location
      dist == Abs(dx)
  IN  IF dist <= FIX_VEHICLE_SPEED
        THEN [fx EXCEPT !.location = target_loc, !.arrived = TRUE]
        ELSE [fx EXCEPT !.location = @ + (dx \div dist) * FIX_VEHICLE_SPEED,
                        !.arrived = TRUE]

fix_move_towards(fx, target_loc) ==
  LET dx == target_loc - fx.location
      dist == Abs(dx)
  IN  IF dist <= FIX_VEHICLE_SPEED
        THEN [fx EXCEPT !.location = target_loc, !.arrived = TRUE]
        ELSE [fx EXCEPT !.location = @ + (dx \div dist) * FIX_VEHICLE_SPEED,
                        !.arrived = FALSE]

\* ---- simpy ----
\* env.schedule: events are processed by time, then in the order scheduled
Schedule(q, ev) ==
  LET k == Cardinality({i \in 1 .. Len(q) : q[i].time <= ev.time})
  IN  SubSeq(q, 1, k) \o <<ev>> \o SubSeq(q, k + 1, Len(q))

\* yield self.env.timeout(delay) by process p
Timeout(p, delay, label) ==
  /\ queue' = Schedule(queue, [time |-> now + delay, proc |-> p])
  /\ pc' = [pc EXCEPT ![p] = label]
  /\ active' = None

\* the loop iteration ends without a yield: the generator goes on
Continue(p) ==
  /\ pc' = [pc EXCEPT ![p] = "loop"]
  /\ UNCHANGED <<queue, active>>

\* no farm simulation has been constructed
FarmOff ==
  /\ config = None
  /\ until = 0
  /\ env_now = 0
  /\ env_queue = <<>>
  /\ running = FALSE
  /\ tray_id = 0
  /\ trays = <<>>
  /\ farm_agvs = <<>>
  /\ agv_fleet = [items |-> <<>>, get_queue |-> <<>>]
  /\ planting_stations = [users |-> {}, queue |-> <<>>]
  /\ harvest_stations = [users |-> {}, queue |-> <<>>]
  /\ shelves = [level |-> 0, put_queue |-> <<>>, get_queue |-> <<>>]
  /\ tray_wait_times = <<>>
  /\ trays_completed = 0
  /\ agv_utilization = <<>>

\* the construction in run_scenario / run_scenario_headless, for a scenario with
\* the AGVs agv_ids and the harvest points point_ids
Setup(agv_ids, point_ids) ==
  /\ agv_strategy \in {"random_safe", "smart"}
  /\ fix_strategy \in {"reactive", "proactive"}
  /\ \E q \in [agv_ids -> QualityFactors] : agvs = [i \in agv_ids |-> NewAGV(i, q[i])]
  /\ points = [k \in point_ids |-> NewHarvestPoint(k)]
  /\ fixer = NewFixVehicle
  /\ queue = [i \in 1 .. Cardinality(agv_ids) + 1 |-> [time |-> 0, proc |-> i - 1]]
  /\ now = 0
  /\ active = None
  /\ pc = [p \in 0 .. Cardinality(agv_ids) |-> "loop"]
  /\ sim_time = 0
  /\ phase = "check"
  /\ FarmOff

\* the reference scenario
Init == Setup(FleetIds, 0 .. HARVEST_POINTS_COUNT - 1)

\* scenarios with any number of harvest points from 0 and any number of AGVs from 1,
\* up to the reference scenario
InitAny ==
  \E m \in 1 .. Cardinality(FleetIds), n \in 0 .. HARVEST_POINTS_COUNT :
    Setup(0 .. m - 1, 0 .. n - 1)

\* ---- AGV.run: one iteration of the while loop, up to its yield (if any) ----
\* faulty variant: the harvest is skipped when the AGV is no longer HARVESTING at the
\* end of the wait
HarvestDone_ifharvesting(agv, pts) ==
  IF agv.state = "HARVESTING" /\ agv.battery > 0
    THEN LET h == harvest(pts[agv.current_harvest_point])
         IN  [agv |-> [agv EXCEPT !.items_carried = h.amount,
                                  !.state = "MOVING_TO_STORAGE",
                                  !.target = storage_loc],
              points |-> [pts EXCEPT ![agv.current_harvest_point] = h.point]]
    ELSE [agv |-> agv, points |-> pts]

\* HARVESTING, after the timeout
HarvestDone(agv, pts) ==
  IF agv.state # "BROKEN" /\ agv.battery > 0
    THEN LET h == harvest(pts[agv.current_harvest_point])
         IN  [agv |-> [agv EXCEPT !.items_carried = h.amount,
                                  !.state = "MOVING_TO_STORAGE",
                                  !.target = storage_loc],
              points |-> [pts EXCEPT ![agv.current_harvest_point] = h.point]]
    ELSE [agv |-> agv, points |-> pts]

\* faulty variant: the items of an AGV that is no longer UNLOADING at the end of the
\* wait are dropped
UnloadDone_ifunloading(agv) ==
  [agv EXCEPT !.total_harvested = IF agv.state = "UNLOADING" THEN @ + agv.items_carried
                                                              ELSE @,
              !.items_carried = 0,
              !.state = "IDLE",
              !.current_harvest_point = None]

\* UNLOADING, after the timeout
UnloadDone(agv) ==
  [agv EXCEPT !.total_harvested = @ + agv.items_carried,
              !.items_carried = 0,
              !.state = "IDLE",
              !.current_harvest_point = None]

\* faulty variant: charging without the cap at 100
Charging_nocap(agv) ==
  LET b == agv.battery + CHARGE_SPEED
  IN  IF b >= FULL THEN [agv EXCEPT !.battery = b, !.state = "IDLE"]
                   ELSE [agv EXCEPT !.battery = b]

\* faulty variant: the AGV leaves the charger after one charging step, full or not
Charging_onestep(agv) ==
  LET b == agv.battery + CHARGE_SPEED
  IN  IF b >= FULL THEN [agv EXCEPT !.battery = FULL, !.state = "IDLE"]
                   ELSE [agv EXCEPT !.battery = b, !.state = "IDLE"]

Charging(agv) ==
  LET b == agv.battery + CHARGE_SPEED
  IN  IF b >= FULL THEN [agv EXCEPT !.battery = FULL, !.state = "IDLE"]
                   ELSE [agv EXCEPT !.battery = b]

\* MOVING_TO_HARVEST / MOVING_TO_STORAGE / MOVING_TO_CHARGER
Moving(agv, next) ==
  LET m == move_towards(agv, agv.target)
  IN  IF m.arrived THEN [m.agv EXCEPT !.state = next] ELSE m.agv

Idle(a, agv, pts) ==
  IF agv.items_carried > 0
    THEN /\ agvs' = [agvs EXCEPT ![a] = [agv EXCEPT !.state = "MOVING_TO_STORAGE",
                                                    !.target = storage_loc]]
         /\ points' = pts
         /\ Timeout(a, 1, "loop")
    ELSE \E decision \in Strategy(agv, a, pts) :
           /\ points' = decision.points
           /\ CASE decision.kind = "CHARGE" ->
                     /\ agvs' = [agvs EXCEPT ![a] = [agv EXCEPT !.state = "MOVING_TO_CHARGER",
                                                                !.target = charger_loc]]
                     /\ Continue(a)
                [] decision.kind = "POINT" ->
                     /\ agvs' = [agvs EXCEPT ![a] =
                                   [agv EXCEPT !.state = "MOVING_TO_HARVEST",
                                               !.current_harvest_point = decision.point,
                                               !.target = decision.points[decision.point].location]]
                     /\ Continue(a)
                [] OTHER ->
                     /\ agvs' = [agvs EXCEPT ![a] = agv]
                     /\ Timeout(a, 1, "loop")

StateMachine(a, agv, pts) ==
  CASE agv.state = "IDLE" -> Idle(a, agv, pts)
    [] agv.state = "MOVING_TO_HARVEST" ->
         /\ agvs' = [agvs EXCEPT ![a] = Moving(agv, "HARVESTING")]
         /\ points' = pts
         /\ Timeout(a, 1, "loop")
    [] agv.state = "HARVESTING" ->
         /\ agvs' = [agvs EXCEPT ![a] = agv]
         /\ points' = pts
         /\ Timeout(a, HARVEST_TIME, "harvest")
    [] agv.state = "MOVING_TO_STORAGE" ->
         /\ agvs' = [agvs EXCEPT ![a] = Moving(agv, "UNLOADING")]
         /\ points' = pts
         /\ Timeout(a, 1, "loop")
    [] agv.state = "UNLOADING" ->
         /\ agvs' = [agvs EXCEPT ![a] = agv]
         /\ points' = pts
         /\ Timeout(a, UNLOAD_TIME, "unload")
    [] agv.state = "MOVING_TO_CHARGER" ->
         /\ agvs' = [agvs EXCEPT ![a] = Moving(agv, "CHARGING")]
         /\ points' = pts
         /\ Timeout(a, 1, "loop")
    [] agv.state = "CHARGING" ->
         /\ agvs' = [agvs EXCEPT ![a] = Charging(agv)]
         /\ points' = pts
         /\ Timeout(a, 1, "loop")
    [] OTHER ->
         /\ agvs' = [agvs EXCEPT ![a] = agv]
         /\ points' = pts
         /\ Timeout(a, 1, "loop")

\* 2. critical states: DEAD and BROKEN only wait one tick
Critical(agv) == agv.state = "DEAD" \/ agv.state = "BROKEN"

AGVLoop(a) ==
  /\ active = a
  /\ pc[a] = "loop"
  /\ \E variance \in Variances :
       \E w \in {Wear(agvs[a], a, points, variance)} :
           IF Critical(w.agv)
             THEN /\ agvs' = [agvs EXCEPT ![a] = w.agv]
                  /\ points' = w.points
                  /\ Timeout(a, 1, "loop")
             ELSE \E s \in {SafetyNet(w.agv, a, w.points)} :
                    StateMachine(a, s.agv, s.points)
  /\ UNCHANGED <<fixer, agv_strategy, fix_strategy, now, sim_time, phase>>
  /\ UNCHANGED farm_vars

AGVHarvestDone(a) ==
  /\ active = a
  /\ pc[a] = "harvest"
  /\ LET h == HarvestDone(agvs[a], points)
     IN  /\ agvs' = [agvs EXCEPT ![a] = h.agv]
         /\ points' = h.points
  /\ Continue(a)
  /\ UNCHANGED <<fixer, agv_strategy, fix_strategy, now, sim_time, phase>>
  /\ UNCHANGED farm_vars

AGVUnloadDone(a) ==
  /\ active = a
  /\ pc[a] = "unload"
  /\ agvs' = [agvs EXCEPT ![a] = UnloadDone(agvs[a])]
  /\ Continue(a)
  /\ UNCHANGED <<points, fixer, agv_strategy, fix_strategy, now, sim_time, phase>>
  /\ UNCHANGED farm_vars

\* ---- FixVehicle.run: one iteration of the while loop ----
\* faulty variant: the repair also recharges the AGV
Repaired_recharge(agv) ==
  [agv EXCEPT !.functionality = FULL, !.state = "IDLE", !.battery = FULL]

\* faulty variant: the repair returns the AGV to IDLE without resetting functionality
Repaired_noreset(agv) == [agv EXCEPT !.state = "IDLE"]

\* REPAIRING, after the timeout: what the repair does to the target AGV
Repaired(agv) == [agv EXCEPT !.functionality = FULL, !.state = "IDLE"]

\* faulty variant: the repair wait is one tick short
Repairing_short ==
  /\ fixer' = fixer
  /\ Timeout(FIX, REPAIR_TIME - 1, "repair")

\* faulty variant: the repair is done without a wait
Repairing_nowait ==
  /\ fixer' = fixer
  /\ pc' = [pc EXCEPT ![FIX] = "repair"]
  /\ UNCHANGED <<queue, active>>

\* REPAIRING: yield self.env.timeout(REPAIR_TIME)
Repairing ==
  /\ fixer' = fixer
  /\ Timeout(FIX, REPAIR_TIME, "repair")

FixLoop ==
  /\ active = FIX
  /\ pc[FIX] = "loop"
  /\ CASE fixer.state = "IDLE" ->
            LET target == FixStrategy(fixer, agvs)
            IN  IF target # None
                  THEN /\ fixer' = [fixer EXCEPT !.target_agv = target,
                                                 !.state = "MOVING_TO_TARGET",
                                                 !.reached = FALSE]
                       /\ Continue(FIX)
                  ELSE /\ fixer' = fixer
                       /\ Timeout(FIX, 1, "loop")
       [] fixer.state = "MOVING_TO_TARGET" ->
            LET mv == fix_move_towards(fixer, agvs[fixer.target_agv].location)
                m == [mv EXCEPT !.reached = @ \/ mv.arrived]
                t == agvs[fixer.target_agv]
            IN  IF m.arrived /\ (t.state = "BROKEN" \/ t.functionality <= EARLY_REPAIR)
                  THEN /\ fixer' = [m EXCEPT !.state = "REPAIRING",
                                             !.repairing_since = now]
                       /\ Continue(FIX)
                  ELSE /\ fixer' = m
                       /\ Timeout(FIX, 1, "loop")
       [] fixer.state = "REPAIRING" -> Repairing
       [] fixer.state = "RETURNING" ->
            LET m == fix_move_towards(fixer, fixer.home_loc)
            IN  /\ fixer' = IF m.arrived THEN [m EXCEPT !.state = "IDLE"] ELSE m
                /\ Timeout(FIX, 1, "loop")
  /\ UNCHANGED <<agvs, points, agv_strategy, fix_strategy, now, sim_time, phase>>
  /\ UNCHANGED farm_vars

\* faulty variant: after a repair the vehicle is free at once, where it stands
FixRepairDone_free ==
  /\ active = FIX
  /\ pc[FIX] = "repair"
  /\ agvs' = [agvs EXCEPT ![fixer.target_agv] = Repaired(agvs[fixer.target_agv])]
  /\ fixer' = [fixer EXCEPT !.target_agv = None, !.state = "IDLE",
                             !.repairing_since = None]
  /\ Continue(FIX)
  /\ UNCHANGED <<points, agv_strategy, fix_strategy, now, sim_time, phase>>
  /\ UNCHANGED farm_vars

\* faulty variant: the repair leaves the vehicle's target in place
FixRepairDone_keeptarget ==
  /\ active = FIX
  /\ pc[FIX] = "repair"
  /\ agvs' = [agvs EXCEPT ![fixer.target_agv] = Repaired(agvs[fixer.target_agv])]
  /\ fixer' = [fixer EXCEPT !.state = "RETURNING", !.repairing_since = None]
  /\ Continue(FIX)
  /\ UNCHANGED <<points, agv_strategy, fix_strategy, now, sim_time, phase>>
  /\ UNCHANGED farm_vars

FixRepairDone ==
  /\ active = FIX
  /\ pc[FIX] = "repair"
  /\ agvs' = [agvs EXCEPT ![fixer.target_agv] = Repaired(agvs[fixer.target_agv])]
  /\ fixer' = [fixer EXCEPT !.target_agv = None, !.state = "RETURNING",
                             !.repairing_since = None]
  /\ Continue(FIX)
  /\ UNCHANGED <<points, agv_strategy, fix_strategy, now, sim_time, phase>>
  /\ UNCHANGED farm_vars

\* ---- the run loop (run_scenario_headless 369-379, run_scenario 445-456) ----
\* faulty variant: a scenario without harvest points is never "all harvested"
all_harvested_some == PointIds # {} /\ \A k \in PointIds : points[k].is_empty

all_harvested == \A k \in PointIds : points[k].is_empty
all_home == \A i \in AGVIds : agvs[i].state \in {"IDLE", "CHARGING", "DEAD"}
dead_count == Cardinality({i \in AGVIds : agvs[i].state = "DEAD"})
all_dead == dead_count = AGV_COUNT
Finished == (all_harvested /\ all_home) \/ all_dead

\* faulty variant: the loop advances without testing the termination predicate
RunLoopCheck_nocheck ==
  /\ phase = "check"
  /\ phase' = IF sim_time < max_time THEN "run" ELSE "done"
  /\ UNCHANGED <<agvs, points, fixer, agv_strategy, fix_strategy, queue, now, active,
                 pc, sim_time>>
  /\ UNCHANGED farm_vars

\* while sim_time < max_time: ... if finished: break; env.run(until=sim_time + 1)
RunLoopCheck ==
  /\ phase = "check"
  /\ phase' = IF sim_time < max_time /\ ~Finished THEN "run" ELSE "done"
  /\ UNCHANGED <<agvs, points, fixer, agv_strategy, fix_strategy, queue, now, active,
                 pc, sim_time>>
  /\ UNCHANGED farm_vars

\* faulty variant: any of the events due at the earliest time is processed next
EnvStep_anyorder ==
  /\ phase = "run"
  /\ active = None
  /\ Head(queue).time < sim_time + 1
  /\ \E i \in 1 .. Len(queue) :
       /\ queue[i].time = Head(queue).time
       /\ now' = queue[i].time
       /\ active' = queue[i].proc
       /\ queue' = SubSeq(queue, 1, i - 1) \o SubSeq(queue, i + 1, Len(queue))
  /\ UNCHANGED <<agvs, points, fixer, agv_strategy, fix_strategy, pc, sim_time, phase>>
  /\ UNCHANGED farm_vars

\* env.step(): the next event is due before `until`; its process resumes
EnvStep ==
  /\ phase = "run"
  /\ active = None
  /\ Head(queue).time < sim_time + 1
  /\ now' = Head(queue).time
  /\ active' = Head(queue).proc
  /\ queue' = Tail(queue)
  /\ UNCHANGED <<agvs, points, fixer, agv_strategy, fix_strategy, pc, sim_time, phase>>
  /\ UNCHANGED farm_vars

\* env.run returns at `until`; sim_time += 1
EnvRunReturn ==
  /\ phase = "run"
  /\ active = None
  /\ Head(queue).time >= sim_time + 1
  /\ now' = sim_time + 1
  /\ sim_time' = sim_time + 1
  /\ phase' = "check"
  /\ UNCHANGED <<agvs, points, fixer, agv_strategy, fix_strategy, queue, active, pc>>
  /\ UNCHANGED farm_vars

Next ==
  \/ RunLoopCheck
  \/ EnvStep
  \/ EnvRunReturn
  \/ \E a \in AGVIds : AGVLoop(a)
  \/ \E a \in AGVIds : AGVHarvestDone(a)
  \/ \E a \in AGVIds : AGVUnloadDone(a)
  \/ FixLoop
  \/ FixRepairDone

Spec == Init /\ [][Next]_vars

SpecAny == InitAny /\ [][Next]_vars

\* ---- end-of-run statistics (run_scenario_headless 381-392) ----
\* sum(f[x] for x in S)
RECURSIVE Sum(_, _)
Sum(f, S) ==
  IF S = {} THEN 0
  ELSE LET x == CHOOSE y \in S : TRUE IN f[x] + Sum(f, S \ {x})

total_items == Sum([i \in AGVIds |-> agvs[i].total_harvested], AGVIds)
total_dist == Sum([i \in AGVIds |-> agvs[i].distance_traveled], AGVIds)
dead_agvs == Cardinality({i \in AGVIds : agvs[i].state = "DEAD"})
\* "Efficiency": total_dist / total_items if total_items > 0 else 0, as a fraction
Efficiency ==
  IF total_items > 0 THEN [num |-> total_dist, den |-> total_items]
                     ELSE [num |-> 0, den |-> 1]

\* ================= the farm variant (src/simulation_project) =================
\* Positions lie on one line; times and positions are scaled. One process id stands
\* for a tray's lifecycle_process together with the request_agv_task and AGV.move
\* processes it starts and waits for; trays[k].pc tells which of them resumes next.
\* A process started with env.process runs its first step (its Initialize event is
\* urgent) right after the step that started it, so that step is part of the
\* starting action. A request, get or put is served at the call when it can be;
\* a release, put or get wakes the requests waiting on the other side when its own
\* event is processed.
TRAY_GENERATION_INTERVAL == 2
PLANTING_DURATION == 3
GROWTH_DURATION == 4
HARVEST_DURATION == 3
AGV_MOVE_SPEED == 1
SIM_TIME == 30
SHELF_POS == 8
HARVEST_POS == 0
AGV_START_POS == 5

SCENARIO_A ==
  [NAME |-> "Scenario A (Baseline)", AGV_COUNT |-> 2, PLANTING_STATIONS |-> 1,
   HARVEST_STATIONS |-> 1, SHELF_CAPACITY |-> 1000]
SCENARIO_B ==
  [NAME |-> "Scenario B (Optimized)", AGV_COUNT |-> 5, PLANTING_STATIONS |-> 2,
   HARVEST_STATIONS |-> 2, SHELF_CAPACITY |-> 1000]
Scenarios == {SCENARIO_A, SCENARIO_B}

FarmAGVIds == DOMAIN farm_agvs
TrayIds == DOMAIN trays
\* the tray_generator's process
GEN == 0

\* Tray.__init__, with the position of the tray's processes: pc, the transport leg
\* (1 to the shelf, 2 to harvest), the AGV a get has handed to request_agv_task and
\* request_agv_task's req_start
NewTray(id, creation_time) ==
  [id |-> id, creation_time |-> creation_time, is_planted |-> FALSE, is_grown |-> FALSE,
   done |-> FALSE, pc |-> "start", leg |-> 0, agv |-> None, req_start |-> None]

\* resources.AGV.__init__
NewFarmAGV(id, start_pos) ==
  [id |-> id, state |-> "IDLE", total_distance_traveled |-> 0, utilization_time |-> 0,
   pos |-> start_pos, target_pos |-> start_pos, move_start_time |-> 0,
   move_duration |-> 0, carrying_tray |-> None]

\* ---- simpy.Resource ----
\* request(): the request joins the queue, then the first request of the queue gets
\* a slot if one is free; next is the process that was served, or None
ResourceRequest(res, capacity, k) ==
  LET queue_k == Append(res.queue, k)
  IN  IF Cardinality(res.users) < capacity
        THEN [res |-> [users |-> res.users \cup {Head(queue_k)}, queue |-> Tail(queue_k)],
              next |-> Head(queue_k)]
        ELSE [res |-> [res EXCEPT !.queue = queue_k], next |-> None]

\* faulty variant: the release leaves the slot with its user
ResourceRelease_keep(res, k) == res

\* release(request): the user leaves at once
ResourceRelease(res, k) == [res EXCEPT !.users = @ \ {k}]

\* the release event is processed: the first waiting request gets the free slot
ResourceTriggerPut(res, capacity) ==
  IF res.queue # <<>> /\ Cardinality(res.users) < capacity
    THEN [res |-> [users |-> res.users \cup {Head(res.queue)}, queue |-> Tail(res.queue)],
          next |-> Head(res.queue)]
    ELSE [res |-> res, next |-> None]

\* ---- simpy.Store ----
\* faulty variant: a get hands out the first item and leaves it in the store
StoreGet_keep(store, k) ==
  LET queue_k == Append(store.get_queue, k)
  IN  IF store.items # <<>>
        THEN [store |-> [items |-> store.items, get_queue |-> Tail(queue_k)],
              next |-> Head(queue_k), item |-> Head(store.items)]
        ELSE [store |-> [store EXCEPT !.get_queue = queue_k], next |-> None, item |-> None]

\* get(): the request joins the queue, then the first request of the queue takes the
\* first item if there is one
StoreGet(store, k) ==
  LET queue_k == Append(store.get_queue, k)
  IN  IF store.items # <<>>
        THEN [store |-> [items |-> Tail(store.items), get_queue |-> Tail(queue_k)],
              next |-> Head(queue_k), item |-> Head(store.items)]
        ELSE [store |-> [store EXCEPT !.get_queue = queue_k], next |-> None, item |-> None]

\* put(item): the store has no capacity limit, the item is stored at once
StorePut(store, a) == [store EXCEPT !.items = Append(@, a)]

\* faulty variant: a returned item goes to the request made last
StoreTriggerGet_lifo(store) ==
  LET n == Len(store.get_queue)
  IN  IF store.get_queue # <<>> /\ store.items # <<>>
        THEN [store |-> [items |-> Tail(store.items),
                         get_queue |-> SubSeq(store.get_queue, 1, n - 1)],
              next |-> store.get_queue[n], item |-> Head(store.items)]
        ELSE [store |-> store, next |-> None, item |-> None]

\* the put event is processed: the first waiting get takes the first item
StoreTriggerGet(store) ==
  IF store.get_queue # <<>> /\ store.items # <<>>
    THEN [store |-> [items |-> Tail(store.items), get_queue |-> Tail(store.get_queue)],
          next |-> Head(store.get_queue), item |-> Head(store.items)]
    ELSE [store |-> store, next |-> None, item |-> None]

\* ---- simpy.Container, amounts of 1 ----
\* faulty variant: a put is granted without raising the level
ContainerPut_nolevel(c, capacity, k) == [c |-> c, ok |-> TRUE]

\* put(1): served at the call if no put is waiting and there is room
ContainerPut(c, capacity, k) ==
  IF c.put_queue = <<>> /\ c.level + 1 <= capacity
    THEN [c |-> [c EXCEPT !.level = @ + 1], ok |-> TRUE]
    ELSE [c |-> [c EXCEPT !.put_queue = Append(@, k)], ok |-> FALSE]

\* get(1): served at the call if no get is waiting and the level is at least 1
ContainerGet(c, k) ==
  IF c.get_queue = <<>> /\ c.level >= 1
    THEN [c |-> [c EXCEPT !.level = @ - 1], ok |-> TRUE]
    ELSE [c |-> [c EXCEPT !.get_queue = Append(@, k)], ok |-> FALSE]

\* the put event is processed: waiting gets are served while the level allows
ContainerTriggerGet(c) ==
  LET n == Min(Len(c.get_queue), c.level)
  IN  [c |-> [c EXCEPT !.level = @ - n, !.get_queue = SubSeq(@, n + 1, Len(@))],
       served |-> SubSeq(c.get_queue, 1, n)]

\* the get event is processed: waiting puts are served while there is room
ContainerTriggerPut(c, capacity) ==
  LET n == Min(Len(c.put_queue), capacity - c.level)
  IN  [c |-> [c EXCEPT !.level = @ + n, !.put_queue = SubSeq(@, n + 1, Len(@))],
       served |-> SubSeq(c.put_queue, 1, n)]

\* ---- the farm environment's events ----
\* a process resumes: its timeout, its request, get or put, or the process it waits
\* for has come to its end
Resume(t, p) == [time |-> t, proc |-> p, kind |-> "resume"]
\* the release event of a station slot; no process waits for it
ReleaseEvent(t, kind) == [time |-> t, proc |-> None, kind |-> kind]

RECURSIVE ResumeAll(_, _, _)
ResumeAll(q, t, procs) ==
  IF procs = <<>> THEN q
  ELSE ResumeAll(Schedule(q, Resume(t, Head(procs))), t, Tail(procs))

SetPcAll(trs, procs, label) ==
  [j \in DOMAIN trs |->
     IF \E i \in DOMAIN procs : procs[i] = j THEN [trs[j] EXCEPT !.pc = label] ELSE trs[j]]

\* the next event is due before `until` and resumes process p
FarmEvent(p) ==
  /\ running
  /\ env_queue # <<>>
  /\ Head(env_queue).time < until
  /\ Head(env_queue).kind = "resume"
  /\ Head(env_queue).proc = p

\* ---- resources.AGV.move ----
\* up to the yield
move_start(agv, target_pos, t) ==
  LET dist == Abs(target_pos - agv.pos)
      travel_time == dist \div AGV_MOVE_SPEED
  IN  [agv EXCEPT !.target_pos = target_pos, !.move_start_time = t,
                  !.move_duration = travel_time, !.state = "MOVING"]

\* faulty variant: the arrival counts the whole elapsed time as the move's duration
move_arrive_elapsed(agv, t) ==
  [agv EXCEPT !.utilization_time = @ + t,
              !.total_distance_traveled = @ + Abs(agv.target_pos - agv.pos),
              !.pos = agv.target_pos, !.state = "IDLE"]

\* after the yield: arrival
move_arrive(agv, t) ==
  LET duration == t - agv.move_start_time
  IN  [agv EXCEPT !.utilization_time = @ + duration,
                  !.total_distance_traveled = @ + Abs(agv.target_pos - agv.pos),
                  !.pos = agv.target_pos, !.state = "IDLE"]

\* ---- FarmSimulation.request_agv_task, up to the get ----
\* process k starts request_agv_task for transport leg `leg` at time t
RequestAGV(k, leg, trs, q, t) ==
  LET g == StoreGet(agv_fleet, k)
      waiting == [trs EXCEPT ![k].pc = "agv_wait", ![k].leg = leg, ![k].req_start = t]
  IN  IF g.next # None
        THEN [trays |-> [waiting EXCEPT ![g.next].pc = "got", ![g.next].agv = g.item],
              env_queue |-> Schedule(q, Resume(t, g.next)),
              agv_fleet |-> g.store]
        ELSE [trays |-> waiting, env_queue |-> q, agv_fleet |-> g.store]

\* ---- FarmSimulation.tray_generator: one iteration, with the start of the new
\* tray's lifecycle_process (the request of a planting station) ----
tray_generator ==
  /\ FarmEvent(GEN)
  /\ LET t == Head(env_queue).time
         k == tray_id + 1
         r == ResourceRequest(planting_stations, config.PLANTING_STATIONS, k)
         q1 == Schedule(Tail(env_queue), Resume(t + TRAY_GENERATION_INTERVAL, GEN))
         trs == Append(trays, [NewTray(k, t) EXCEPT !.pc = "plant_wait"])
     IN  /\ env_now' = t
         /\ tray_id' = k
         /\ planting_stations' = r.res
         /\ trays' = IF r.next # None THEN [trs EXCEPT ![r.next].pc = "plant_granted"]
                                      ELSE trs
         /\ env_queue' = IF r.next # None THEN Schedule(q1, Resume(t, r.next)) ELSE q1
  /\ UNCHANGED <<config, until, running, farm_agvs, agv_fleet, harvest_stations, shelves,
                 tray_wait_times, trays_completed, agv_utilization>>
  /\ UNCHANGED harvest_vars

\* ---- FarmSimulation.lifecycle_process: from one yield to the next ----
lifecycle_process(k) ==
  /\ k \in TrayIds
  /\ FarmEvent(k)
  /\ trays[k].pc \in {"plant_granted", "planting", "back", "shelf_put_done", "growing",
                      "shelf_got", "harvest_granted", "harvesting"}
  /\ LET t == Head(env_queue).time
         q == Tail(env_queue)
     IN  /\ env_now' = t
         /\ CASE trays[k].pc = "plant_granted" ->
                   /\ trays' = [trays EXCEPT ![k].pc = "planting"]
                   /\ env_queue' = Schedule(q, Resume(t + PLANTING_DURATION, k))
                   /\ UNCHANGED <<planting_stations, harvest_stations, agv_fleet, shelves,
                                  trays_completed>>
              [] trays[k].pc = "planting" ->
                   LET r == RequestAGV(k, 1, [trays EXCEPT ![k].is_planted = TRUE],
                                       Schedule(q, ReleaseEvent(t, "planting_release")), t)
                   IN  /\ planting_stations' = ResourceRelease(planting_stations, k)
                       /\ trays' = r.trays
                       /\ env_queue' = r.env_queue
                       /\ agv_fleet' = r.agv_fleet
                       /\ UNCHANGED <<harvest_stations, shelves, trays_completed>>
              [] trays[k].pc = "back" /\ trays[k].leg = 1 ->
                   LET p == ContainerPut(shelves, config.SHELF_CAPACITY, k)
                   IN  /\ shelves' = p.c
                       /\ trays' = [trays EXCEPT ![k].pc = IF p.ok THEN "shelf_put_done"
                                                                   ELSE "shelf_put_wait"]
                       /\ env_queue' = IF p.ok THEN Schedule(q, Resume(t, k)) ELSE q
                       /\ UNCHANGED <<planting_stations, harvest_stations, agv_fleet,
                                      trays_completed>>
              [] trays[k].pc = "back" /\ trays[k].leg # 1 ->
                   LET g == ContainerGet(shelves, k)
                   IN  /\ shelves' = g.c
                       /\ trays' = [trays EXCEPT ![k].pc = IF g.ok THEN "shelf_got"
                                                                   ELSE "shelf_get_wait"]
                       /\ env_queue' = IF g.ok THEN Schedule(q, Resume(t, k)) ELSE q
                       /\ UNCHANGED <<planting_stations, harvest_stations, agv_fleet,
                                      trays_completed>>
              [] trays[k].pc = "shelf_put_done" ->
                   LET tg == ContainerTriggerGet(shelves)
                   IN  /\ shelves' = tg.c
                       /\ trays' = [SetPcAll(trays, tg.served, "shelf_got")
                                      EXCEPT ![k].pc = "growing"]
                       /\ env_queue' = Schedule(ResumeAll(q, t, tg.served),
                                                Resume(t + GROWTH_DURATION, k))
                       /\ UNCHANGED <<planting_stations, harvest_stations, agv_fleet,
                                      trays_completed>>
              [] trays[k].pc = "growing" ->
                   LET r == RequestAGV(k, 2, [trays EXCEPT ![k].is_grown = TRUE], q, t)
                   IN  /\ trays' = r.trays
                       /\ env_queue' = r.env_queue
                       /\ agv_fleet' = r.agv_fleet
                       /\ UNCHANGED <<planting_stations, harvest_stations, shelves,
                                      trays_completed>>
              [] trays[k].pc = "shelf_got" ->
                   LET tp == ContainerTriggerPut(shelves, config.SHELF_CAPACITY)
                       r == ResourceRequest(harvest_stations, config.HARVEST_STATIONS, k)
                       trs == [SetPcAll(trays, tp.served, "shelf_put_done")
                                 EXCEPT ![k].pc = "harvest_wait"]
                       q1 == ResumeAll(q, t, tp.served)
                   IN  /\ shelves' = tp.c
                       /\ harvest_stations' = r.res
                       /\ trays' = IF r.next # None
                                     THEN [trs EXCEPT ![r.next].pc = "harvest_granted"]
                                     ELSE trs
                       /\ env_queue' = IF r.next # None THEN Schedule(q1, Resume(t, r.next))
                                                         ELSE q1
                       /\ UNCHANGED <<planting_stations, agv_fleet, trays_completed>>
              [] trays[k].pc = "harvest_granted" ->
                   /\ trays' = [trays EXCEPT ![k].pc = "harvesting"]
                   /\ env_queue' = Schedule(q, Resume(t + HARVEST_DURATION, k))
                   /\ UNCHANGED <<planting_stations, harvest_stations, agv_fleet, shelves,
                                  trays_completed>>
              [] trays[k].pc = "harvesting" ->
                   /\ trays_completed' = trays_completed + 1
                   /\ trays' = [trays EXCEPT ![k].pc = "done", ![k].done = TRUE]
                   /\ harvest_stations' = ResourceRelease(harvest_stations, k)
                   /\ env_queue' = Schedule(q, ReleaseEvent(t, "harvest_release"))
                   /\ UNCHANGED <<planting_stations, agv_fleet, shelves>>
  /\ UNCHANGED <<config, until, running, tray_id, farm_agvs, tray_wait_times,
                 agv_utilization>>
  /\ UNCHANGED harvest_vars

\* ---- FarmSimulation.request_agv_task: after the get, after the move, after the put
request_agv_task(k) ==
  /\ k \in TrayIds
  /\ FarmEvent(k)
  /\ trays[k].pc \in {"got", "moved", "put_done"}
  /\ LET t == Head(env_queue).time
         q == Tail(env_queue)
         a == trays[k].agv
     IN  /\ env_now' = t
         /\ CASE trays[k].pc = "got" ->
                   LET target_pos == IF trays[k].leg = 1 THEN SHELF_POS ELSE HARVEST_POS
                       wait_time == t - trays[k].req_start
                       m == move_start([farm_agvs[a] EXCEPT !.carrying_tray = k], target_pos, t)
                   IN  /\ tray_wait_times' = Append(tray_wait_times, wait_time)
                       /\ farm_agvs' = [farm_agvs EXCEPT ![a] = m]
                       /\ trays' = [trays EXCEPT ![k].pc = "moving"]
                       /\ env_queue' = Schedule(q, Resume(t + m.move_duration, k))
                       /\ UNCHANGED agv_fleet
              [] trays[k].pc = "moved" ->
                   /\ farm_agvs' = [farm_agvs EXCEPT ![a].carrying_tray = None]
                   /\ agv_fleet' = StorePut(agv_fleet, a)
                   /\ trays' = [trays EXCEPT ![k].pc = "put_done", ![k].agv = None]
                   /\ env_queue' = Schedule(q, Resume(t, k))
                   /\ UNCHANGED tray_wait_times
              [] trays[k].pc = "put_done" ->
                   LET g == StoreTriggerGet(agv_fleet)
                       trs == [trays EXCEPT ![k].pc = "back"]
                   IN  /\ agv_fleet' = g.store
                       /\ trays' = IF g.next # None
                                     THEN [trs EXCEPT ![g.next].pc = "got", ![g.next].agv = g.item]
                                     ELSE trs
                       /\ env_queue' = Schedule(IF g.next # None
                                                  THEN Schedule(q, Resume(t, g.next)) ELSE q,
                                                Resume(t, k))
                       /\ UNCHANGED <<farm_agvs, tray_wait_times>>
  /\ UNCHANGED <<config, until, running, tray_id, planting_stations, harvest_stations,
                 shelves, trays_completed, agv_utilization>>
  /\ UNCHANGED harvest_vars

\* ---- resources.AGV.move, after the yield: the AGV of tray k's transport arrives ----
move(k) ==
  /\ k \in TrayIds
  /\ FarmEvent(k)
  /\ trays[k].pc = "moving"
  /\ LET t == Head(env_queue).time
         a == trays[k].agv
     IN  /\ env_now' = t
         /\ farm_agvs' = [farm_agvs EXCEPT ![a] = move_arrive(farm_agvs[a], t)]
         /\ trays' = [trays EXCEPT ![k].pc = "moved"]
         /\ env_queue' = Schedule(Tail(env_queue), Resume(t, k))
  /\ UNCHANGED <<config, until, running, tray_id, agv_fleet, planting_stations,
                 harvest_stations, shelves, tray_wait_times, trays_completed,
                 agv_utilization>>
  /\ UNCHANGED harvest_vars

\* ---- a station's release event is processed: the first waiting request is served
release ==
  /\ running
  /\ env_queue # <<>>
  /\ Head(env_queue).time < until
  /\ Head(env_queue).kind # "resume"
  /\ LET t == Head(env_queue).time
         q == Tail(env_queue)
     IN  /\ env_now' = t
         /\ IF Head(env_queue).kind = "planting_release"
              THEN LET r == ResourceTriggerPut(planting_stations, config.PLANTING_STATIONS)
                   IN  /\ planting_stations' = r.res
                       /\ trays' = IF r.next # None
                                     THEN [trays EXCEPT ![r.next].pc = "plant_granted"]
                                     ELSE trays
                       /\ env_queue' = IF r.next # None THEN Schedule(q, Resume(t, r.next))
                                                         ELSE q
                       /\ UNCHANGED harvest_stations
              ELSE LET r == ResourceTriggerPut(harvest_stations, config.HARVEST_STATIONS)
                   IN  /\ harvest_stations' = r.res
                       /\ trays' = IF r.next # None
                                     THEN [trays EXCEPT ![r.next].pc = "harvest_granted"]
                                     ELSE trays
                       /\ env_queue' = IF r.next # None THEN Schedule(q, Resume(t, r.next))
                                                         ELSE q
                       /\ UNCHANGED planting_stations
  /\ UNCHANGED <<config, until, running, tray_id, farm_agvs, agv_fleet, shelves,
                 tray_wait_times, trays_completed, agv_utilization>>
  /\ UNCHANGED harvest_vars

\* faulty variant: the clock stays at the last processed event (stepping while
\* env.peek() < until instead of env.run(until))
FarmRunReturn_peek ==
  /\ running
  /\ env_queue = <<>> \/ Head(env_queue).time >= until
  /\ env_now' = env_now
  /\ running' = FALSE
  /\ agv_utilization' = [i \in FarmAGVIds |->
                           [num |-> farm_agvs[i].utilization_time, den |-> until]]
  /\ UNCHANGED <<config, until, env_queue, tray_id, trays, farm_agvs, agv_fleet,
                 planting_stations, harvest_stations, shelves, tray_wait_times,
                 trays_completed>>
  /\ UNCHANGED harvest_vars

\* ---- env.run(until) returns: no event is left before `until`; FarmSimulation.run
\* then computes the utilization (as the fraction utilization_time / until) ----
FarmRunReturn ==
  /\ running
  /\ env_queue = <<>> \/ Head(env_queue).time >= until
  /\ env_now' = until
  /\ running' = FALSE
  /\ agv_utilization' = [i \in FarmAGVIds |->
                           [num |-> farm_agvs[i].utilization_time, den |-> until]]
  /\ UNCHANGED <<config, until, env_queue, tray_id, trays, farm_agvs, agv_fleet,
                 planting_stations, harvest_stations, shelves, tray_wait_times,
                 trays_completed>>
  /\ UNCHANGED harvest_vars

\* no harvest scenario has been constructed
HarvestOff ==
  /\ agvs = <<>>
  /\ points = <<>>
  /\ fixer = NewFixVehicle
  /\ agv_strategy = "smart"
  /\ fix_strategy = "reactive"
  /\ queue = <<>>
  /\ now = 0
  /\ active = None
  /\ pc = <<>>
  /\ sim_time = 0
  /\ phase = "done"

\* FarmSimulation.__init__ and FarmResources.__init__ for a scenario, then
\* env.process(tray_generator()) and the entry to env.run(until), for any until from
\* 1 to SIM_TIME
InitFarm ==
  /\ HarvestOff
  /\ config \in Scenarios
  /\ until \in 1 .. SIM_TIME
  /\ env_now = 0
  /\ env_queue = <<Resume(TRAY_GENERATION_INTERVAL, GEN)>>
  /\ running = TRUE
  /\ tray_id = 0
  /\ trays = <<>>
  /\ farm_agvs = [i \in 0 .. config.AGV_COUNT - 1 |-> NewFarmAGV(i, AGV_START_POS + i)]
  /\ agv_fleet = [items |-> [i \in 1 .. config.AGV_COUNT |-> i - 1], get_queue |-> <<>>]
  /\ planting_stations = [users |-> {}, queue |-> <<>>]
  /\ harvest_stations = [users |-> {}, queue |-> <<>>]
  /\ shelves = [level |-> 0, put_queue |-> <<>>, get_queue |-> <<>>]
  /\ tray_wait_times = <<>>
  /\ trays_completed = 0
  /\ agv_utilization = [i \in 0 .. config.AGV_COUNT - 1 |-> [num |-> 0, den |-> 1]]

NextFarm ==
  \/ tray_generator
  \/ \E k \in TrayIds : lifecycle_process(k)
  \/ \E k \in TrayIds : request_agv_task(k)
  \/ \E k \in TrayIds : move(k)
  \/ release
  \/ FarmRunReturn

SpecFarm == InitFarm /\ [][NextFarm]_vars

\* env.run keeps processing events until it returns
SpecFarmFair == SpecFarm /\ WF_vars(NextFarm)

\* ======================= claims =======================

\* C1: at every tick, under either AGV strategy and either fixer strategy, every
\* AGV's battery and functionality lie in [0, 100].
C1_BatteryAndFunctionalityInRange ==
  \A i \in AGVIds :
    /\ 0 <= agvs[i].battery /\ agvs[i].battery <= FULL
    /\ 0 <= agvs[i].functionality /\ agvs[i].functionality <= FULL

\* an AGV was worn down to the clamp at 0 while another, after travelling, was
\* recharged past 100 and capped
C1_Witness ==
  \E i, j \in AGVIds :
    /\ agvs[i].functionality = 0
    /\ agvs[j].battery = FULL
    /\ agvs[j].distance_traveled > 0
    /\ agvs[j].state = "IDLE"

\* C2: under the smart strategy a claimed point's claimed_by is never overwritten by
\* another AGV (it only changes from None to an id, or from an id to None); an AGV
\* travelling to or harvesting a point is its claimant; and a point is emptied only
\* by the step of its claimant.
C2_ClaimExclusive ==
  /\ [](agv_strategy = "smart" =>
          \A i \in AGVIds :
            (agvs[i].state \in {"MOVING_TO_HARVEST", "HARVESTING"})
              => points[agvs[i].current_harvest_point].claimed_by = i)
  /\ [][agv_strategy = "smart" =>
          \A k \in PointIds :
            /\ points[k].claimed_by # None
                 => points'[k].claimed_by \in {points[k].claimed_by, None}
            /\ (~points[k].is_empty /\ points'[k].is_empty)
                 => (points[k].claimed_by = active /\ points'[k].claimed_by = active)]_vars

\* both AGVs hold a claim, each on its own point, while neither point is harvested:
\* the second AGV evaluated the strategy while the first one's claim stood
C2_Witness ==
  /\ agv_strategy = "smart"
  /\ \E k, m \in PointIds :
       /\ k # m
       /\ points[k].claimed_by = 0 /\ ~points[k].is_empty
       /\ points[m].claimed_by = 1 /\ ~points[m].is_empty
       /\ agvs[0].state \in {"MOVING_TO_HARVEST", "HARVESTING"}
       /\ agvs[1].state \in {"MOVING_TO_HARVEST", "HARVESTING"}

\* C3: an AGV entering UNLOADING carries more than 0 items, and carries 0 when it
\* leaves UNLOADING for IDLE, under every strategy pairing.
C3_UnloadingCarries ==
  [][\A i \in AGVIds :
       /\ (agvs[i].state # "UNLOADING" /\ agvs'[i].state = "UNLOADING")
            => agvs'[i].items_carried > 0
       /\ (agvs[i].state = "UNLOADING" /\ agvs'[i].state = "IDLE")
            => agvs'[i].items_carried = 0]_vars

\* C4: the sum over all AGVs of total_harvested never exceeds 10 times the number
\* of harvest points.
C4_TotalHarvestedBounded == total_items <= ITEMS_PER_POINT * HARVEST_POINTS_COUNT

\* random_safe: two AGVs visited the same point; one has delivered its 10 items, the
\* other came to the emptied point and is unloading nothing
C4_Witness ==
  /\ agv_strategy = "random_safe"
  /\ \E i, j \in AGVIds :
       /\ i # j
       /\ agvs[i].total_harvested = ITEMS_PER_POINT
       /\ agvs[j].state = "UNLOADING" /\ agvs[j].items_carried = 0
       /\ agvs[j].current_harvest_point # None
       /\ points[agvs[j].current_harvest_point].is_empty
       /\ \E k \in PointIds : ~points[k].is_empty

C6_CheckBeforeAdvance ==
  /\ [](phase \in {"check", "done"} => now = sim_time)
  /\ [][/\ (phase = "check" /\ Finished) => (phase' = "done" /\ sim_time' = sim_time /\ now' = now)
        /\ (phase # "run" /\ phase' = "run") => (phase = "check" /\ ~Finished)
        /\ sim_time' # sim_time
             => (phase = "run" /\ phase' = "check" /\ sim_time' = sim_time + 1
                 /\ now' = sim_time')
        /\ now' # now => (phase = "run" /\ now' <= sim_time + 1)
        /\ phase = "done" => UNCHANGED vars]_vars

\* a run that advanced some ticks and then stopped at a check that found the
\* predicate true, before max_time
C6_Witness ==
  /\ phase = "done" /\ Finished
  /\ 0 < sim_time /\ sim_time < max_time

\* C7: under the proactive strategy, an AGV the fixer was sent to while it was not
\* yet BROKEN (lookahead branch) does not reach functionality 0 before the fixer has
\* arrived at its position.
C7_FixerArrivesBeforeFailure ==
  [][\A i \in AGVIds :
       (/\ fix_strategy = "proactive"
        /\ fixer.state = "MOVING_TO_TARGET" /\ fixer.target_agv = i
        /\ ~fixer.reached
        /\ active = i
        /\ agvs[i].functionality > 0)
         => agvs'[i].functionality > 0]_vars

\* C8: from a state in which an AGV is BROKEN or DEAD, no step changes its position,
\* battery, carried items, total_harvested or distance_traveled; its own step changes
\* no AGV and no harvest point and only waits one tick.
C8_BrokenFrozen ==
  [][\A i \in AGVIds :
       agvs[i].state \in {"BROKEN", "DEAD"} =>
         /\ agvs'[i].location = agvs[i].location
         /\ agvs'[i].battery = agvs[i].battery
         /\ agvs'[i].items_carried = agvs[i].items_carried
         /\ agvs'[i].total_harvested = agvs[i].total_harvested
         /\ agvs'[i].distance_traveled = agvs[i].distance_traveled
         /\ active = i =>
              /\ agvs' = agvs /\ points' = points
              /\ queue' = Schedule(queue, [time |-> now + 1, proc |-> i])
              /\ active' = None /\ pc' = pc]_vars

\* a BROKEN AGV that carries items, away from the storage, has just taken a step of
\* its own (it waits for the next tick)
C8_Witness ==
  \E i \in AGVIds :
    /\ agvs[i].state = "BROKEN"
    /\ agvs[i].items_carried > 0
    /\ agvs[i].location # storage_loc
    /\ \E n \in 1 .. Len(queue) : queue[n] = [time |-> now + 1, proc |-> i]
    /\ now > 0

\* C9: an AGV leaves BROKEN only in the step in which the fixer completes the repair
\* of it, and that step sets it to IDLE with functionality 100.
C9_BrokenUntilRepaired ==
  [][\A i \in AGVIds :
       (agvs[i].state = "BROKEN" /\ agvs'[i].state # "BROKEN") =>
         /\ active = FIX /\ pc[FIX] = "repair" /\ fixer.target_agv = i
         /\ agvs'[i].state = "IDLE"
         /\ agvs'[i].functionality = FULL]_vars

\* the reactive fixer (sent to BROKEN AGVs only) has just completed a repair: the
\* AGV at its position is IDLE with functionality 100
C9_Witness ==
  /\ fix_strategy = "reactive"
  /\ active = FIX /\ fixer.state = "RETURNING" /\ fixer.target_agv = None
  /\ \E i \in AGVIds :
       /\ agvs[i].location = fixer.location
       /\ agvs[i].state = "IDLE"
       /\ agvs[i].functionality = FULL
       /\ now > 0

\* C10: no AGV is ever DEAD: the reported dead-AGV count is 0 and no run ends by
\* the all-dead branch of the termination predicate.
C10_NeverDead ==
  /\ \A i \in AGVIds : agvs[i].state # "DEAD"
  /\ dead_agvs = 0
  /\ dead_count = 0
  /\ ~all_dead

\* the run has lasted max_time ticks and ends with every AGV BROKEN, one of them
\* with less than half of its battery left: none is DEAD
C10_Witness ==
  /\ phase = "done"
  /\ sim_time = max_time
  /\ \A i \in AGVIds : agvs[i].state = "BROKEN"
  /\ \E i \in AGVIds : agvs[i].battery < FULL \div 2

\* C11: REPAIRING lasts exactly REPAIR_TIME ticks; the step that ends it sets the
\* target AGV's functionality to 100 and its state to IDLE, empties the fixer's
\* target and makes the fixer RETURNING; no other step of the fixer changes an AGV,
\* the repair changes nothing else of the AGV, and the fixer changes no harvest point.
C11_RepairCompletes ==
  /\ [](fixer.state = "REPAIRING"
          => /\ fixer.repairing_since # None
             /\ fixer.target_agv # None
             /\ now <= fixer.repairing_since + REPAIR_TIME)
  /\ [][/\ (fixer.state = "REPAIRING" /\ fixer'.state # "REPAIRING")
             => /\ now = fixer.repairing_since + REPAIR_TIME
                /\ fixer'.state = "RETURNING"
                /\ fixer'.target_agv = None
                /\ agvs' = [agvs EXCEPT ![fixer.target_agv] =
                                  [@ EXCEPT !.functionality = FULL, !.state = "IDLE"]]
        /\ (active = FIX /\ agvs' # agvs)
             => (fixer.state = "REPAIRING" /\ fixer'.state = "RETURNING")
        /\ active = FIX => points' = points]_vars

\* the fixer has just completed a repair next to an AGV that is IDLE with
\* functionality 100 again
C11_Witness ==
  /\ active = FIX
  /\ fixer.state = "RETURNING" /\ fixer.target_agv = None
  /\ now >= REPAIR_TIME
  /\ \E i \in AGVIds :
       /\ agvs[i].location = fixer.location
       /\ agvs[i].state = "IDLE" /\ agvs[i].functionality = FULL
       /\ agvs[i].battery < FULL

\* C12: every AGV starts in IDLE, and every change of an AGV's state is one of the
\* listed ones. A loop iteration is taken phase by phase (wear, safety net, state
\* machine): wear only turns a working state into BROKEN, the safety net only turns
\* a task state into MOVING_TO_CHARGER, the state machine only makes
\* IDLE->MOVING_TO_STORAGE (carrying items, the strategy not called),
\* IDLE->MOVING_TO_CHARGER (strategy returned charge), IDLE->MOVING_TO_HARVEST
\* (strategy returned that point), MOVING_TO_x->HARVESTING/UNLOADING/CHARGING on
\* arrival, CHARGING->IDLE; the end of the harvest wait only makes
\* HARVESTING->MOVING_TO_STORAGE carrying the yield, the end of the unload wait only
\* UNLOADING->IDLE, and the fixer only any state->IDLE at repair completion.
C12_StateChangesListed ==
  /\ [](now = 0 /\ phase = "check" => \A i \in AGVIds : agvs[i].state = "IDLE")
  /\ [][\A i \in AGVIds :
          LET old == agvs[i]
              new == agvs'[i]
          IN  new.state # old.state =>
                \/ /\ active = i /\ pc[i] = "loop"
                   /\ \A variance \in Variances :
                        LET w == Wear(old, i, points, variance)
                            s == SafetyNet(w.agv, i, w.points)
                        IN  w.agv.functionality = new.functionality =>
                              /\ w.agv.state # old.state
                                   => (w.agv.state = "BROKEN" /\ old.state # "DEAD")
                              /\ s.agv.state # w.agv.state
                                   => /\ s.agv.state = "MOVING_TO_CHARGER"
                                      /\ w.agv.state \in {"MOVING_TO_HARVEST", "HARVESTING",
                                                          "MOVING_TO_STORAGE", "UNLOADING"}
                              /\ new.state # s.agv.state =>
                                   \/ /\ s.agv.state = "IDLE" /\ new.state = "MOVING_TO_STORAGE"
                                      /\ s.agv.items_carried > 0 /\ points' = s.points
                                   \/ /\ s.agv.state = "IDLE" /\ new.state = "MOVING_TO_CHARGER"
                                      /\ \E d \in Strategy(s.agv, i, s.points) : d.kind = "CHARGE"
                                   \/ /\ s.agv.state = "IDLE" /\ new.state = "MOVING_TO_HARVEST"
                                      /\ \E d \in Strategy(s.agv, i, s.points) :
                                           d.kind = "POINT" /\ d.point = new.current_harvest_point
                                   \/ /\ s.agv.state = "MOVING_TO_HARVEST" /\ new.state = "HARVESTING"
                                      /\ new.location = s.agv.target
                                   \/ /\ s.agv.state = "MOVING_TO_STORAGE" /\ new.state = "UNLOADING"
                                      /\ new.location = storage_loc
                                   \/ /\ s.agv.state = "MOVING_TO_CHARGER" /\ new.state = "CHARGING"
                                      /\ new.location = charger_loc
                                   \/ s.agv.state = "CHARGING" /\ new.state = "IDLE"
                \/ /\ active = i /\ pc[i] = "harvest"
                   /\ old.state = "HARVESTING" /\ new.state = "MOVING_TO_STORAGE"
                   /\ new.items_carried = harvest(points[old.current_harvest_point]).amount
                \/ /\ active = i /\ pc[i] = "unload"
                   /\ old.state = "UNLOADING" /\ new.state = "IDLE"
                \/ /\ active = FIX /\ pc[FIX] = "repair"
                   /\ fixer.target_agv = i /\ new.state = "IDLE"]_vars

\* C13: a scenario set up with 0 harvest points and 1 AGV ends at the first
\* termination check: the clock is never advanced (total time 0, env.now 0, no
\* process has run), 0 items are harvested, 0 distance is travelled and the
\* efficiency is reported as 0.
C13_EmptyScenarioEndsAtOnce ==
  (AGV_COUNT = 1 /\ PointIds = {}) =>
    /\ phase \in {"check", "done"}
    /\ phase = "check" => Finished
    /\ sim_time = 0 /\ now = 0
    /\ Len(queue) = AGV_COUNT + 1 /\ active = None
    /\ total_items = 0 /\ total_dist = 0
    /\ Efficiency.num = 0

\* the run of the scenario with no harvest point and one AGV is over
C13_Witness ==
  /\ AGV_COUNT = 1 /\ PointIds = {}
  /\ phase = "done"
  /\ sim_time = 0

\* C14: farm variant: at every instant the AGVs in the fleet store and the AGVs held
\* by transport tasks are exactly the AGV_COUNT AGVs created at setup, each once; no
\* AGV is held by two tasks; a request made while the store is empty suspends, and a
\* suspended request ends only by receiving an AGV that was in the store.
C14_FleetConserved ==
  /\ [](LET held == {k \in TrayIds : trays[k].agv # None}
            stored == {agv_fleet.items[i] : i \in DOMAIN agv_fleet.items}
        IN  /\ FarmAGVIds = 0 .. config.AGV_COUNT - 1
            /\ Cardinality(stored) = Len(agv_fleet.items)
            /\ \A k1, k2 \in held : trays[k1].agv = trays[k2].agv => k1 = k2
            /\ \A k \in held : trays[k].agv \notin stored
            /\ stored \cup {trays[k].agv : k \in held} = FarmAGVIds)
  /\ [][\A k \in TrayIds :
          /\ (FarmEvent(k) /\ trays[k].pc \in {"planting", "growing"}
                /\ agv_fleet.items = <<>>)
               => (trays'[k].pc = "agv_wait" /\ trays'[k].agv = None)
          /\ (trays[k].pc = "agv_wait" /\ trays'[k].pc # "agv_wait")
               => /\ trays'[k].pc = "got"
                  /\ \E i \in DOMAIN agv_fleet.items : agv_fleet.items[i] = trays'[k].agv]_vars

\* every AGV is held by a transport task, the store is empty and a request waits
C14_Witness ==
  /\ running
  /\ agv_fleet.items = <<>>
  /\ agv_fleet.get_queue # <<>>
  /\ \A a \in FarmAGVIds : \E k \in TrayIds : trays[k].agv = a /\ trays[k].pc = "moving"

\* C15: farm variant: suspended AGV requests are resumed in the order they were made:
\* the get queue holds the waiting requests in request order (a new request joins at
\* the end, requests leave from the front), and of two waiting requests the later
\* one never receives an AGV while the earlier one still waits.
C15_RequestsServedInOrder ==
  /\ [](\A i, j \in DOMAIN agv_fleet.get_queue :
          i < j => /\ agv_fleet.get_queue[i] # agv_fleet.get_queue[j]
                   /\ trays[agv_fleet.get_queue[i]].pc = "agv_wait"
                   /\ trays[agv_fleet.get_queue[i]].req_start
                        <= trays[agv_fleet.get_queue[j]].req_start)
  /\ [](\A k \in TrayIds : trays[k].pc = "agv_wait"
          => \E i \in DOMAIN agv_fleet.get_queue : agv_fleet.get_queue[i] = k)
  /\ [][\A i, j \in DOMAIN agv_fleet.get_queue :
          i < j => (trays'[agv_fleet.get_queue[j]].pc = "got"
                      => trays'[agv_fleet.get_queue[i]].pc # "agv_wait")]_vars

\* a request that had to wait has received an AGV while a later request still waits
C15_Witness ==
  /\ agv_fleet.get_queue # <<>>
  /\ \E k \in TrayIds :
       /\ trays[k].pc = "got"
       /\ trays[k].req_start < env_now
       /\ trays[k].req_start <= trays[Head(agv_fleet.get_queue)].req_start

\* C16: farm variant, scenario A: running with the tray generator until T comes to
\* an end for every T > 0 (while it runs some event or the return is possible), the
\* clock is then exactly T, and tray_wait_times then holds exactly one non-negative
\* entry per AGV acquisition made.
C16_RunUntilCompletes ==
  /\ [](config = SCENARIO_A =>
          /\ env_now <= until
          /\ running => ENABLED NextFarm
          /\ ~running =>
               /\ env_now = until
               /\ Len(tray_wait_times)
                    = Sum([k \in TrayIds |->
                             IF trays[k].leg = 0 THEN 0
                             ELSE IF trays[k].pc = "agv_wait" THEN trays[k].leg - 1
                             ELSE trays[k].leg], TrayIds)
               /\ \A i \in DOMAIN tray_wait_times : tray_wait_times[i] >= 0)
  /\ <>(~running)

\* a run of scenario A has returned after AGVs were acquired, one of them after a wait
C16_Witness ==
  /\ config = SCENARIO_A
  /\ ~running
  /\ Len(tray_wait_times) > 2
  /\ \E i \in DOMAIN tray_wait_times : tray_wait_times[i] > 0

\* C17: two runs of the same strategy pairing that receive the same random draws
\* pass through the same states: from every reachable state, the step taken is the
\* only step possible with its draws (the jitter of the wear step, and the point the
\* shuffle of agv_strategy_random_safe puts first when a point is picked), so the
\* state sequence, and with it sim_time and total_dist at the end, is a function of
\* the strategies and the draws.
C17_SameDrawsSameRun ==
  [][\A c \in {vars'} :
       \A variance \in IF active \in AGVIds THEN Variances ELSE {10} :
         \A picked \in {{agvs'[a].current_harvest_point :
                           a \in {b \in AGVIds : /\ active = b
                                                 /\ agvs[b].state = "IDLE"
                                                 /\ agvs'[b].state = "MOVING_TO_HARVEST"}}} :
           LET SameDraws ==
                 \A a \in AGVIds :
                   (active = a /\ pc[a] = "loop") =>
                     /\ agvs'[a].functionality
                          = Wear(agvs[a], a, points, variance).agv.functionality
                     /\ (agvs[a].state = "IDLE" /\ agvs'[a].state = "MOVING_TO_HARVEST")
                          => agvs'[a].current_harvest_point \in picked
           IN  SameDraws => ~ENABLED (Next /\ SameDraws /\ vars' # c)]_vars

\* a run under agv_strategy_random_safe has ended after wear, travel and a harvest
C17_Witness ==
  /\ Finished
  /\ agv_strategy = "random_safe"
  /\ total_dist > 0
  /\ total_items > 0
  /\ \E a \in AGVIds : agvs[a].functionality < FULL

\* C18: in every tick in which an AGV is neither BROKEN nor DEAD, the timed waits of
\* HARVESTING and UNLOADING included, wear is applied exactly once, before the state
\* logic: every loop iteration of such an AGV subtracts one decay draw (or breaks the
\* AGV) and then yields for exactly one tick, so that no tick passes without an
\* iteration and no tick sees two.
C18_WearOncePerTick ==
  [][\A a \in AGVIds :
       (active = a /\ pc[a] = "loop" /\ agvs[a].state \notin {"BROKEN", "DEAD"}) =>
         /\ \E variance \in Variances :
              agvs'[a].functionality = Wear(agvs[a], a, points, variance).agv.functionality
         /\ active' = None
         /\ pc'[a] = "loop"
         /\ \E i \in 1 .. Len(queue') : queue'[i] = [time |-> now + 1, proc |-> a]]_vars

\* C19: an AGV worn down to 0 is BROKEN with functionality 0 and has released every
\* claim it held: whenever an AGV is BROKEN, no harvest point that still has items
\* is claimed by it.
C19_BrokenHoldsNoClaim ==
  \A a \in AGVIds, k \in PointIds :
    (agvs[a].state = "BROKEN" /\ ~points[k].is_empty) => points[k].claimed_by # a

\* C20: at a loop evaluation of an AGV that, after the wear step, is in
\* MOVING_TO_HARVEST, HARVESTING, MOVING_TO_STORAGE or UNLOADING with
\* battery < distance(location, charger) * BATTERY_DRAIN + 2, the AGV is sent to the
\* charger (MOVING_TO_CHARGER with target charger_loc, then the move of the same
\* iteration, which may already arrive) and holds no claim afterwards; with enough
\* battery such an AGV is not sent to the charger; and the safety net leaves an AGV
\* that is IDLE, CHARGING, MOVING_TO_CHARGER, BROKEN or DEAD as it is.  The first
\* conjunct states the same of the safety-net block itself, for AGVs at any place
\* with a battery just below and just at the threshold, with and without a claim
\* on their current harvest point.
C20_SafetyNet ==
  /\ \A st \in {"MOVING_TO_HARVEST", "HARVESTING", "MOVING_TO_STORAGE", "UNLOADING",
                "IDLE", "CHARGING", "MOVING_TO_CHARGER", "BROKEN", "DEAD"},
        loc \in 0 .. charger_loc + 1,
        below \in {0, 1},
        chp \in PointIds \cup {None},
        claimant \in AGVIds \cup {None} :
       LET a == 0
           min_needed == get_distance(loc, charger_loc) * BATTERY_DRAIN + SAFETY_MARGIN
           agv == [NewAGV(a, 10) EXCEPT !.state = st, !.location = loc,
                                        !.battery = min_needed - below,
                                        !.current_harvest_point = chp,
                                        !.target = storage_loc]
           pts == [k \in PointIds |->
                     [points[k] EXCEPT !.claimed_by = IF k = chp THEN claimant ELSE None]]
           s == SafetyNet(agv, a, pts)
           busy == st \in {"MOVING_TO_HARVEST", "HARVESTING", "MOVING_TO_STORAGE", "UNLOADING"}
       IN  IF busy /\ below = 1
             THEN /\ s.agv.state = "MOVING_TO_CHARGER"
                  /\ s.agv.target = charger_loc
                  /\ \A k \in PointIds : s.points[k].claimed_by # a
                  /\ \A k \in PointIds :
                       pts[k].claimed_by # a => s.points[k] = pts[k]
                  /\ s.agv.battery = agv.battery /\ s.agv.location = agv.location
             ELSE s = [agv |-> agv, points |-> pts]
  /\ [][\A a \in AGVIds :
          (active = a /\ pc[a] = "loop") =>
            \A variance \in Variances :
              LET w == Wear(agvs[a], a, points, variance)
                  low == w.agv.battery
                           < get_distance(w.agv.location, charger_loc) * BATTERY_DRAIN
                               + SAFETY_MARGIN
                  busy == w.agv.state \in {"MOVING_TO_HARVEST", "HARVESTING",
                                           "MOVING_TO_STORAGE", "UNLOADING"}
              IN  agvs'[a].functionality = w.agv.functionality =>
                    /\ (busy /\ low) =>
                         /\ agvs'[a].state \in {"MOVING_TO_CHARGER", "CHARGING"}
                         /\ agvs'[a].target = charger_loc
                         /\ \A k \in PointIds : points'[k].claimed_by # a
                    /\ (busy /\ ~low) =>
                         agvs'[a].state \notin {"MOVING_TO_CHARGER", "CHARGING"}
                    /\ ~busy => SafetyNet(w.agv, a, w.points)
                                  = [agv |-> w.agv, points |-> w.points]]_vars

\* the safety net has sent an AGV that was about to unload to the charger: it is on
\* its way there with the items still on board
C20_Witness ==
  \E a \in AGVIds :
    /\ agvs[a].state = "MOVING_TO_CHARGER"
    /\ agvs[a].target = charger_loc
    /\ agvs[a].items_carried > 0

C22_Charging ==
  [][\A a \in AGVIds :
       agvs[a].state = "CHARGING" =>
         /\ (active = a /\ pc[a] = "loop" /\ agvs'[a].state # "BROKEN") =>
              /\ agvs'[a].battery = Min(agvs[a].battery + CHARGE_SPEED, FULL)
              /\ agvs'[a].state = IF agvs[a].battery + CHARGE_SPEED >= FULL
                                    THEN "IDLE" ELSE "CHARGING"
              /\ queue' = Schedule(queue, [time |-> now + 1, proc |-> a])
              /\ active' = None
         /\ (active = a /\ agvs'[a].state = "IDLE") => agvs'[a].battery = FULL
         /\ active # a => agvs'[a].battery = agvs[a].battery]_vars

\* an AGV that needed more than one charging step has just been returned to IDLE by
\* its own step, at the charger, with battery 100
C22_Witness ==
  \E a \in AGVIds :
    /\ agvs[a].state = "IDLE"
    /\ agvs[a].battery = FULL
    /\ agvs[a].location = charger_loc
    /\ agvs[a].distance_traveled * BATTERY_DRAIN > CHARGE_SPEED
    /\ pc[a] = "loop" /\ active = None
    /\ \E n \in 1 .. Len(queue) : queue[n] = [time |-> now + 1, proc |-> a]

\* C23 (as claimed): an AGV that is in HARVESTING or UNLOADING always starts and
\* completes the timed task: every iteration of its loop that finds it HARVESTING or
\* UNLOADING begins the timed wait, regardless of wear and safety net.
C23_TimedTaskFromEntry ==
  [][\A a \in AGVIds :
       /\ (active = a /\ pc[a] = "loop" /\ agvs[a].state = "HARVESTING")
            => pc'[a] = "harvest"
       /\ (active = a /\ pc[a] = "loop" /\ agvs[a].state = "UNLOADING")
            => pc'[a] = "unload"]_vars

\* C23 (amended): once the timed wait of HARVESTING, UNLOADING or REPAIRING has begun
\* it is never cancelled.  The wait begins in an iteration that finds the agent in
\* that state after wear and safety net (for the fixer: in the tick it entered
\* REPAIRING) and schedules the resumption HARVEST_TIME, UNLOAD_TIME, REPAIR_TIME
\* ticks later; until then no step moves the agent on or touches that event, the
\* agent resumes exactly at that time, and on resumption the completion effect
\* happens whatever was done to the agent in between: the point is emptied and its
\* items are carried to the storage, the carried items are credited, the target AGV
\* is repaired.
C23_TimedTaskCompletes ==
  /\ [](fixer.state = "REPAIRING" => (pc[FIX] = "repair" \/ active = FIX))
  /\ [][/\ (active = FIX /\ pc[FIX] = "loop" /\ fixer.state = "REPAIRING") =>
             pc'[FIX] = "repair"
        /\ \A p \in Procs :
             LET D == CASE pc'[p] = "harvest" -> HARVEST_TIME
                        [] pc'[p] = "unload" -> UNLOAD_TIME
                        [] OTHER -> REPAIR_TIME
                 mine == {i \in 1 .. Len(queue) : queue[i].proc = p}
             IN  /\ (pc[p] = "loop" /\ pc'[p] # "loop") =>
                      /\ active = p /\ active' = None
                      /\ queue' = Schedule(queue, [time |-> now + D, proc |-> p])
                      /\ IF p = FIX THEN pc'[p] = "repair" /\ fixer.state = "REPAIRING"
                                    ELSE \/ pc'[p] = "harvest" /\ agvs'[p].state = "HARVESTING"
                                         \/ pc'[p] = "unload" /\ agvs'[p].state = "UNLOADING"
                 /\ (pc[p] # "loop" /\ active # p) =>
                      /\ pc'[p] = pc[p]
                      /\ Cardinality(mine) = 1
                      /\ \A i \in mine :
                           /\ queue[i].time >= now
                           /\ IF active' = p
                                THEN now' = queue[i].time
                                ELSE \E j \in 1 .. Len(queue') : queue'[j] = queue[i]
                 /\ (pc[p] # "loop" /\ active = p) =>
                      /\ mine = {}
                      /\ pc'[p] = "loop" /\ active' = p /\ now' = now
                      /\ pc[p] = "harvest" =>
                           LET k == agvs[p].current_harvest_point
                           IN  /\ points'[k].items = 0 /\ points'[k].is_empty
                               /\ agvs'[p].items_carried
                                    = IF points[k].items > 0 THEN ITEMS_PER_POINT ELSE 0
                               /\ agvs'[p].state = "MOVING_TO_STORAGE"
                               /\ agvs'[p].target = storage_loc
                      /\ pc[p] = "unload" =>
                           /\ agvs'[p].total_harvested
                                = agvs[p].total_harvested + agvs[p].items_carried
                           /\ agvs'[p].items_carried = 0
                           /\ agvs'[p].state = "IDLE"
                           /\ agvs'[p].current_harvest_point = None
                      /\ pc[p] = "repair" =>
                           /\ agvs'[fixer.target_agv].functionality = FULL
                           /\ agvs'[fixer.target_agv].state = "IDLE"
                           /\ fixer'.state = "RETURNING"]_vars

\* an AGV that the fixer repaired (and so returned to IDLE) during its harvest wait
\* has resumed at the end of the wait and harvested the point
C23_Witness ==
  \E a \in AGVIds :
    /\ active = a /\ pc[a] = "loop"
    /\ agvs[a].state = "MOVING_TO_STORAGE"
    /\ agvs[a].items_carried = ITEMS_PER_POINT
    /\ agvs[a].functionality = FULL
    /\ agvs[a].location = points[agvs[a].current_harvest_point].location

\* C24: the FixVehicle starts in IDLE, and every change of its state is one of
\* IDLE -> MOVING_TO_TARGET, MOVING_TO_TARGET -> REPAIRING, REPAIRING -> RETURNING,
\* RETURNING -> IDLE; it is given a target only when it leaves IDLE (never while
\* RETURNING), keeps that target until the repair is done, and never goes from
\* MOVING_TO_TARGET to IDLE.
C24_FixerCycle ==
  /\ fixer.state = "IDLE" /\ fixer.target_agv = None
  /\ [][/\ fixer'.state # fixer.state =>
             /\ <<fixer.state, fixer'.state>> \in
                  {<<"IDLE", "MOVING_TO_TARGET">>, <<"MOVING_TO_TARGET", "REPAIRING">>,
                   <<"REPAIRING", "RETURNING">>, <<"RETURNING", "IDLE">>}
             /\ active = FIX
        /\ fixer'.target_agv # fixer.target_agv =>
             \/ /\ fixer.state = "IDLE" /\ fixer'.state = "MOVING_TO_TARGET"
                /\ fixer.target_agv = None /\ fixer'.target_agv \in AGVIds
             \/ /\ fixer.state = "REPAIRING" /\ fixer'.state = "RETURNING"
                /\ fixer'.target_agv = None]_vars

\* the vehicle has been through the whole cycle: it is IDLE at its station again
\* after it reached a target, and has not been sent out since
C24_Witness ==
  /\ fixer.state = "IDLE"
  /\ fixer.reached
  /\ fixer.location = fixer.home_loc
  /\ fixer.target_agv = None
  /\ now > REPAIR_TIME

\* C25: the fixer enters REPAIRING only in a step of its own, from MOVING_TO_TARGET,
\* in which it arrives at the position its target AGV has in that step and the
\* target is BROKEN or its functionality is at or below the early-repair threshold;
\* a step in MOVING_TO_TARGET that arrives while neither holds, or that does not
\* arrive, leaves it MOVING_TO_TARGET and waits one tick, and every step in
\* MOVING_TO_TARGET moves towards the position the target has in that step.
C25_RepairOnArrival ==
  [][/\ (fixer.state # "REPAIRING" /\ fixer'.state = "REPAIRING") =>
          (active = FIX /\ fixer.state = "MOVING_TO_TARGET")
     /\ (active = FIX /\ pc[FIX] = "loop" /\ fixer.state = "MOVING_TO_TARGET") =>
          LET t == agvs[fixer.target_agv]
              near == get_distance(fixer.location, t.location) <= FIX_VEHICLE_SPEED
              due == t.state = "BROKEN" \/ t.functionality <= EARLY_REPAIR
          IN  /\ fixer'.target_agv = fixer.target_agv
              /\ agvs' = agvs
              /\ fixer'.location = fix_move_towards(fixer, t.location).location
              /\ near => fixer'.location = t.location
              /\ ~near => /\ fixer'.location # t.location
                          /\ get_distance(fixer'.location, t.location)
                               = get_distance(fixer.location, t.location) - FIX_VEHICLE_SPEED
              /\ IF near /\ due
                   THEN fixer'.state = "REPAIRING"
                   ELSE /\ fixer'.state = "MOVING_TO_TARGET"
                        /\ queue' = Schedule(queue, [time |-> now + 1, proc |-> FIX])
                        /\ active' = None /\ pc'[FIX] = "loop"]_vars

\* the fixer has caught up with a target that is under way, not BROKEN but worn down
\* to the early-repair threshold, and begins the repair at the target's position
C25_Witness ==
  /\ fixer.state = "REPAIRING"
  /\ active = FIX
  /\ fixer.location = agvs[fixer.target_agv].location
  /\ agvs[fixer.target_agv].state \in {"MOVING_TO_HARVEST", "MOVING_TO_STORAGE", "MOVING_TO_CHARGER"}
  /\ agvs[fixer.target_agv].functionality > 0
  /\ agvs[fixer.target_agv].functionality <= EARLY_REPAIR
  /\ agvs[fixer.target_agv].distance_traveled > FIX_VEHICLE_SPEED

\* C26: whenever at least one AGV is BROKEN, both fixer strategies return a BROKEN
\* AGV whose distance to the fixer is minimal among the BROKEN AGVs; when no AGV is
\* BROKEN the reactive strategy returns none; so under the reactive strategy the
\* fixer's target is BROKEN from its dispatch to the end of its repair.
C26_NearestBrokenFirst ==
  /\ [](LET broken == {a \in AGVIds : agvs[a].state = "BROKEN"}
            d(a) == get_distance(fixer.location, agvs[a].location)
            nearest(r) == r \in broken /\ \A b \in broken : d(r) <= d(b)
        IN  /\ broken # {} => /\ nearest(fix_strategy_reactive(fixer, agvs))
                              /\ nearest(fix_strategy_proactive(fixer, agvs))
            /\ broken = {} => fix_strategy_reactive(fixer, agvs) = None
            /\ (fix_strategy = "reactive" /\ fixer.target_agv # None)
                 => agvs[fixer.target_agv].state = "BROKEN")
  /\ [][fix_strategy = "reactive" =>
          /\ (fixer.state = "IDLE" /\ fixer'.state # "IDLE") =>
               /\ fixer'.target_agv = fix_strategy_reactive(fixer, agvs)
               /\ agvs[fixer'.target_agv].state = "BROKEN"
          /\ (active = FIX /\ fixer.state = "IDLE" /\ fixer'.state = "IDLE") =>
               \A a \in AGVIds : agvs[a].state # "BROKEN"
          /\ (fixer.state = "REPAIRING" /\ fixer'.state = "RETURNING") =>
               agvs[fixer.target_agv].state = "BROKEN"]_vars

\* with both AGVs BROKEN the reactive fixer has just been sent to the nearer one,
\* which is not the first of the list
C26_Witness ==
  /\ fix_strategy = "reactive"
  /\ active = FIX /\ fixer.state = "MOVING_TO_TARGET" /\ ~fixer.reached
  /\ fixer.target_agv = 1
  /\ agvs[0].state = "BROKEN" /\ agvs[1].state = "BROKEN"
  /\ get_distance(fixer.location, agvs[1].location)
       < get_distance(fixer.location, agvs[0].location)

\* C27: for every AGV in every reachable state, the smart strategy returns nothing
\* exactly when no point is both non-exhausted and unclaimed; otherwise, with p the
\* nearest such point (the first of the nearest in list order), it returns "CHARGE"
\* exactly when battery < (dist to p + p to storage + storage to charger) *
\* BATTERY_DRAIN + 10 and changes no point, else it returns p with p's claimed_by
\* set to the AGV's id and every other point unchanged.  In a run under the smart
\* strategy a claim is set only on a point that was non-exhausted and unclaimed, by
\* the step that sends its claimant to it.
C27_SmartStrategy ==
  /\ [](\A a \in AGVIds :
          LET agv == agvs[a]
              avail == {p \in PointIds : ~points[p].is_empty /\ points[p].claimed_by = None}
              d(p) == get_distance(agv.location, points[p].location)
              need(p) == (d(p) + get_distance(points[p].location, storage_loc)
                               + get_distance(storage_loc, charger_loc)) * BATTERY_DRAIN
                           + SMART_MARGIN
              result == agv_strategy_smart(agv, a, points)
          IN  /\ Cardinality(result) = 1
              /\ \A r \in result :
                   /\ r.kind = "None" <=> avail = {}
                   /\ r.kind = "None" => r.points = points
                   /\ avail # {} =>
                        \E p \in avail :
                          /\ \A q \in avail : d(p) < d(q) \/ (d(p) = d(q) /\ p <= q)
                          /\ r.kind = "CHARGE" <=> agv.battery < need(p)
                          /\ r.kind = "CHARGE" => r.points = points
                          /\ r.kind # "CHARGE" =>
                               /\ r.kind = "POINT" /\ r.point = p
                               /\ r.points = [points EXCEPT ![p].claimed_by = a])
  /\ [][agv_strategy = "smart" =>
          \A k \in PointIds :
            (points'[k].claimed_by # points[k].claimed_by /\ points'[k].claimed_by # None) =>
              /\ ~points[k].is_empty /\ points[k].claimed_by = None
              /\ points'[k].claimed_by = active
              /\ agvs[active].state = "IDLE"
              /\ agvs'[active].state = "MOVING_TO_HARVEST"
              /\ agvs'[active].current_harvest_point = k
              /\ agvs'[active].target = points[k].location]_vars

\* the smart strategy has just sent an AGV to the charger although a point was
\* available and unclaimed: the battery did not cover the mission to it plus 10
C27_Witness ==
  /\ agv_strategy = "smart"
  /\ \E a \in AGVIds :
       /\ active = a /\ pc[a] = "loop"
       /\ agvs[a].state = "MOVING_TO_CHARGER"
       /\ agvs[a].battery < FULL
       /\ \E k \in PointIds : ~points[k].is_empty /\ points[k].claimed_by = None

\* C28: a strategy call changes nothing in the world except that the smart strategy
\* sets claimed_by on the point it returns.  Every decision of the safe/random
\* strategy leaves the points as they are, and a decision of the smart strategy
\* differs from them at most in claimed_by of the point it returns; under the
\* safe/random strategy no point is ever claimed; the iteration of an IDLE AGV that
\* carries nothing and is not broken by wear (the one that calls the AGV strategy)
\* changes no other AGV, not the fixer, no point
\* under safe/random and at most claimed_by of the AGV's new harvest point under
\* smart, and of the AGV itself only what AGV.run sets (functionality, state,
\* current harvest point, target); the iteration of the IDLE fixer (the one that
\* calls the fixer strategy) changes no AGV, no point, and of the fixer only what
\* FixVehicle.run sets (target and state).
C28_StrategiesFrame ==
  /\ [](/\ agv_strategy = "random_safe" => \A k \in PointIds : points[k].claimed_by = None
        /\ \A a \in AGVIds :
             /\ \A r \in agv_strategy_random_safe(agvs[a], a, points) : r.points = points
             /\ \A r \in agv_strategy_smart(agvs[a], a, points) :
                  \A k \in PointIds :
                    r.points[k] # points[k] =>
                      /\ r.kind = "POINT" /\ r.point = k
                      /\ r.points[k] = [points[k] EXCEPT !.claimed_by = a])
  /\ [][/\ \A a \in AGVIds :
             (/\ active = a /\ pc[a] = "loop" /\ agvs[a].state = "IDLE"
              /\ agvs[a].items_carried = 0 /\ agvs'[a].state # "BROKEN") =>
               /\ \A b \in AGVIds \ {a} : agvs'[b] = agvs[b]
               /\ fixer' = fixer
               /\ agvs'[a].location = agvs[a].location
               /\ agvs'[a].battery = agvs[a].battery
               /\ agvs'[a].items_carried = agvs[a].items_carried
               /\ agvs'[a].total_harvested = agvs[a].total_harvested
               /\ agvs'[a].distance_traveled = agvs[a].distance_traveled
               /\ agvs'[a].my_decay_rate = agvs[a].my_decay_rate
               /\ \A k \in PointIds :
                    points'[k] # points[k] =>
                      /\ agv_strategy = "smart"
                      /\ agvs'[a].state = "MOVING_TO_HARVEST"
                      /\ agvs'[a].current_harvest_point = k
                      /\ points'[k] = [points[k] EXCEPT !.claimed_by = a]
        /\ (active = FIX /\ pc[FIX] = "loop" /\ fixer.state = "IDLE") =>
             /\ agvs' = agvs /\ points' = points
             /\ fixer'.location = fixer.location
             /\ fixer'.home_loc = fixer.home_loc]_vars

\* under the safe/random strategy both AGVs have been sent to the same point, which
\* neither has claimed, and the fixer has been given a target
C28_Witness ==
  /\ agv_strategy = "random_safe"
  /\ agvs[0].state = "MOVING_TO_HARVEST" /\ agvs[1].state = "MOVING_TO_HARVEST"
  /\ agvs[0].current_harvest_point = agvs[1].current_harvest_point
  /\ points[agvs[0].current_harvest_point].claimed_by = None
  /\ fixer.state = "MOVING_TO_TARGET"

\* C29: every iteration of an AGV's loop and of the FixVehicle's loop suspends for at
\* least one tick before the next iteration of that loop begins: the step of a
\* process that starts an iteration ends with the process suspended until a later
\* tick, so no agent executes two loop iterations within the same tick.
C29_YieldEveryIteration ==
  [][\A p \in Procs :
       (active = p /\ pc[p] = "loop") =>
         /\ active' = None
         /\ \E i \in 1 .. Len(queue') : queue'[i].proc = p /\ queue'[i].time > now]_vars

\* C30: within one tick the agents run in agent-id order, so whenever two AGVs
\* evaluate the smart strategy in the same tick the one with the lower id evaluates
\* first (and so wins a contested point), also when one of them resumes from a
\* harvest or unload wait: no AGV evaluates the smart strategy, with a point
\* available, while an AGV with a lower id is still to run in that tick and will
\* evaluate it too (it is IDLE and empty-handed, and this tick's wear cannot break
\* it).
C30_LowerIdFirst ==
  [][agv_strategy = "smart" =>
       \A a, b \in AGVIds :
         (/\ b < a
          /\ active = a /\ pc[a] = "loop"
          /\ agvs[a].state = "IDLE" /\ agvs[a].items_carried = 0
          /\ agvs'[a].state # "BROKEN"
          /\ \E k \in PointIds : ~points[k].is_empty /\ points[k].claimed_by = None) =>
           ~(/\ agvs[b].state = "IDLE" /\ agvs[b].items_carried = 0 /\ pc[b] = "loop"
             /\ \E i \in 1 .. Len(queue) : queue[i] = [time |-> now, proc |-> b]
             /\ \A variance \in Variances :
                  agvs[b].functionality > (agvs[b].my_decay_rate * variance) \div 10)]_vars

\* ---- fixer service times and the fair run (liveness) ----
\* the reference scenario under the reactive fixer strategy
InitReactive == Init /\ fix_strategy = "reactive"

\* env.run and the run loop keep processing events: no step that can be taken is
\* put off forever
SpecReactiveFair == InitReactive /\ [][Next]_vars /\ WF_vars(Next)

\* ticks of the fixer's longest leg: the AGVs stay between storage and charger, which
\* lie on the same side of the service station
FixLegMax == (charger_loc - fix_station_loc + FIX_VEHICLE_SPEED - 1) \div FIX_VEHICLE_SPEED

\* C31: under the reactive fixer strategy and fair scheduling, every AGV that becomes
\* BROKEN is eventually repaired (state IDLE, functionality 100), also when the other
\* AGV breaks in the meantime and is served first: a BROKEN AGV becomes the fixer's
\* target, and a BROKEN AGV that is the fixer's target is repaired. Wear is slower than
\* the fixer's service, as with the source's rates: the greatest loss of one iteration,
\* my_decay_rate * (1 + FUNC_DECAY_VAR), leaves an AGV just repaired in service when
\* the fixer is back at its station and sent out again. The run of
\* run_scenario_headless stops at max_time, so each step is required of an AGV that
\* is BROKEN long enough before max_time: a service trip (leg and repair) for the
\* repair, a service trip to the other AGV and the way back for its turn; and while
\* an AGV is BROKEN the run is stopped by max_time only, never by the termination
\* predicate.
C31_SlowRates ==
  {r \in 1 .. FULL : ((r * (10 + FUNC_DECAY_VAR)) \div 10) * (FixLegMax + 3) < FULL}

C31_WearSlowerThanService == \A b \in FleetIds : agvs[b].my_decay_rate \in C31_SlowRates

C31_ServiceTicks == FixLegMax + REPAIR_TIME

C31_TurnTicks == C31_ServiceTicks + FixLegMax + 2

C32_Stage(tr) ==
  CASE tr.pc = "plant_wait" -> 1
    [] tr.pc = "plant_granted" -> 2
    [] tr.pc = "planting" -> 3
    [] tr.pc = "agv_wait" -> IF tr.leg = 1 THEN 4 ELSE 13
    [] tr.pc = "got" -> IF tr.leg = 1 THEN 5 ELSE 14
    [] tr.pc = "moving" -> IF tr.leg = 1 THEN 6 ELSE 15
    [] tr.pc = "moved" -> IF tr.leg = 1 THEN 7 ELSE 16
    [] tr.pc = "put_done" -> IF tr.leg = 1 THEN 8 ELSE 17
    [] tr.pc = "back" -> IF tr.leg = 1 THEN 9 ELSE 18
    [] tr.pc = "shelf_put_wait" -> 10
    [] tr.pc = "shelf_put_done" -> 11
    [] tr.pc = "growing" -> 12
    [] tr.pc = "shelf_get_wait" -> 19
    [] tr.pc = "shelf_got" -> 20
    [] tr.pc = "harvest_wait" -> 21
    [] tr.pc = "harvest_granted" -> 22
    [] tr.pc = "harvesting" -> 23
    [] tr.pc = "done" -> 24
    [] OTHER -> 0

\* the stages in which the tray waits for a station, an AGV or the shelf
C32_WaitStages == {1, 4, 10, 13, 19, 21}

\* the times of the events in the queue that resume tray k's process
C32_ResumeTimes(q, k) ==
  {q[i].time : i \in {j \in DOMAIN q : q[j].kind = "resume" /\ q[j].proc = k}}

C32_Duration(label) ==
  CASE label = "planting" -> PLANTING_DURATION
    [] label = "growing" -> GROWTH_DURATION
    [] OTHER -> HARVEST_DURATION

C32_StagesInOrder ==
  /\ [](/\ tray_id = Len(trays)
        /\ trays_completed = Cardinality({k \in TrayIds : trays[k].done})
        /\ trays_completed <= tray_id
        /\ shelves.level = Cardinality({k \in TrayIds : C32_Stage(trays[k]) \in 11 .. 19})
        /\ \A k \in TrayIds :
             /\ C32_Stage(trays[k]) \in 1 .. 24
             /\ trays[k].done <=> trays[k].pc = "done"
             /\ trays[k].done => (trays[k].is_planted /\ trays[k].is_grown)
             /\ trays[k].is_planted <=> C32_Stage(trays[k]) >= 4
             /\ trays[k].is_grown <=> C32_Stage(trays[k]) >= 13
             /\ k \in planting_stations.users <=> C32_Stage(trays[k]) \in {2, 3}
             /\ k \in harvest_stations.users <=> C32_Stage(trays[k]) \in {22, 23}
             /\ trays[k].pc \in {"planting", "growing", "harvesting"}
                  => \E t \in env_now .. env_now + C32_Duration(trays[k].pc) :
                       C32_ResumeTimes(env_queue, k) = {t})
  /\ [][/\ \A k \in TrayIds :
             LET s == C32_Stage(trays[k])
                 s2 == C32_Stage(trays'[k])
             IN  /\ s2 \in {s, s + 1} \/ (s2 = s + 2 /\ s + 1 \in C32_WaitStages)
                 /\ (s2 # s /\ trays'[k].pc \in {"planting", "growing", "harvesting"})
                      => C32_ResumeTimes(env_queue', k)
                           = {env_now' + C32_Duration(trays'[k].pc)}
                 /\ (s2 = s /\ trays[k].pc \in {"planting", "growing", "harvesting"})
                      => C32_ResumeTimes(env_queue', k) = C32_ResumeTimes(env_queue, k)
                 /\ (s2 # s /\ trays[k].pc \in {"planting", "growing", "harvesting"})
                      => /\ Head(env_queue).proc = k
                         /\ C32_ResumeTimes(env_queue, k) = {env_now'}
        /\ \A k \in TrayIds' \ TrayIds : C32_Stage(trays'[k]) \in {1, 2}
        /\ \/ /\ trays_completed' = trays_completed
              /\ \A k \in TrayIds : trays'[k].done = trays[k].done
           \/ /\ trays_completed' = trays_completed + 1
              /\ \E k \in TrayIds :
                   /\ trays[k].pc = "harvesting" /\ trays'[k].pc = "done"
                   /\ \A j \in TrayIds \ {k} : trays'[j].done = trays[j].done]_vars

\* a tray has finished while a later tray holds the planting station and another is
\* past its growth
C32_Witness ==
  /\ trays_completed > 0
  /\ \E k, j, m \in TrayIds :
       /\ trays[k].done
       /\ trays[j].pc = "planting"
       /\ C32_Stage(trays[m]) \in 13 .. 23

\* ---- claims of the smart strategy at tick boundaries ----
\* C33: under the smart strategy, at every tick boundary each AGV is the claimant of
\* at most one non-exhausted harvest point, and every non-exhausted point that is
\* claimed is the current harvest point of its claimant, which is travelling to it or
\* harvesting it: no non-exhausted point stays claimed by an AGV that no longer
\* pursues it, also after a repair has reset the AGV to IDLE.
C33_NoOrphanedClaim ==
  (agv_strategy = "smart" /\ phase = "check") =>
    /\ \A a \in AGVIds :
         Cardinality({k \in PointIds : ~points[k].is_empty /\ points[k].claimed_by = a}) <= 1
    /\ \A k \in PointIds :
         (~points[k].is_empty /\ points[k].claimed_by # None) =>
           /\ points[k].claimed_by \in AGVIds
           /\ agvs[points[k].claimed_by].current_harvest_point = k
           /\ agvs[points[k].claimed_by].state \in {"MOVING_TO_HARVEST", "HARVESTING"}

\* ---- the end of the run and the harvested items ----
\* C34: when the run ends because all harvest points are exhausted and all AGVs are
\* at rest (the break of the run loop before max_time), no AGV carries items and no
\* AGV is inside a harvest or unload wait, and the reported total of items harvested
\* is ITEMS_PER_POINT times the number of exhausted points.
C34_EndsSettled ==
  (phase = "done" /\ sim_time < max_time /\ all_harvested /\ all_home) =>
    /\ \A a \in AGVIds : agvs[a].items_carried = 0 /\ pc[a] \notin {"harvest", "unload"}
    /\ total_items
         = ITEMS_PER_POINT * Cardinality({k \in PointIds : points[k].is_empty})

\* C35: the items of the harvest points are conserved: in every state, and so at
\* every tick boundary, the sum over all AGVs of total_harvested + items_carried is
\* ITEMS_PER_POINT times the number of exhausted points.  A point is exhausted exactly
\* when it has no items, an exhausted point stays exhausted, and the step
\* that exhausts a point is the end of one AGV's harvest wait, which hands the
\* ITEMS_PER_POINT items to that AGV, carrying nothing before; a repair or a breakdown
\* changes neither the items an AGV carries nor its total.
C35_ItemsConserved ==
  /\ [](Sum([i \in AGVIds |-> agvs[i].total_harvested + agvs[i].items_carried], AGVIds)
          = ITEMS_PER_POINT * Cardinality({k \in PointIds : points[k].is_empty}))
  /\ [](\A k \in PointIds :
          /\ points[k].items \in {0, ITEMS_PER_POINT}
          /\ points[k].is_empty <=> points[k].items = 0)
  /\ [][\A k \in PointIds :
          /\ points[k].is_empty => points'[k].is_empty
          /\ (~points[k].is_empty /\ points'[k].is_empty) =>
               /\ active \in AGVIds /\ pc[active] = "harvest"
               /\ agvs[active].current_harvest_point = k
               /\ agvs[active].items_carried = 0
               /\ agvs'[active].items_carried = ITEMS_PER_POINT
               /\ \A b \in AGVIds \ {active} : agvs'[b] = agvs[b]]_vars
  /\ [][(active = FIX \/ \E a \in AGVIds : active = a /\ pc[a] = "loop") =>
          \A b \in AGVIds :
            /\ agvs'[b].items_carried = agvs[b].items_carried
            /\ agvs'[b].total_harvested = agvs[b].total_harvested]_vars

\* a tick boundary after a repair has reset an AGV inside its unload wait to IDLE:
\* it still carries its items, while the other AGV has unloaded its own
C35_Witness ==
  /\ phase = "check"
  /\ \E a, b \in AGVIds :
       /\ a # b
       /\ agvs[a].state = "IDLE" /\ pc[a] = "unload"
       /\ agvs[a].items_carried = ITEMS_PER_POINT
       /\ agvs[b].total_harvested = ITEMS_PER_POINT

\* ---- the smart strategy with the proactive fixer: orphaned claims and termination ----
\* the reference scenario under the smart AGV strategy with the proactive fixer
InitSmartProactive == Init /\ agv_strategy = "smart" /\ fix_strategy = "proactive"

\* env.run and the run loop keep processing events: the run takes a step whenever it
\* can
SpecSmartProactiveFair == InitSmartProactive /\ [][Next]_vars /\ WF_vars(Next)

\* a point with items whose claimant has another current harvest point (or none):
\* agv_strategy_smart skips it for every AGV, its claimant included, and the wear
\* branch and the safety net release current_harvest_point only
Orphaned(k) ==
  /\ ~points[k].is_empty
  /\ points[k].claimed_by \in AGVIds
  /\ agvs[points[k].claimed_by].current_harvest_point # k

\* an orphaned claim is never released and its point never harvested
OrphanedForGood == [][\A k \in PointIds : Orphaned(k) => Orphaned(k)']_vars

\* C36: under the smart AGV strategy with the proactive fixer and fair scheduling,
\* every harvest point is eventually exhausted: every run reaches a state in which
\* all points are exhausted, or ends (by max_time or with all AGVs DEAD) without a
\* non-exhausted point that no AGV will ever target.
C36_EveryPointExhausted ==
  <>(all_harvested \/ (phase = "done" /\ \A k \in PointIds : ~Orphaned(k)))

\* ---- the fixer at tick boundaries ----
\* C37: at every tick boundary the fixer is at its home position whenever its state is
\* IDLE, its target AGV is set exactly when its state is MOVING_TO_TARGET or
\* REPAIRING, and it is inside the repair wait exactly when its state is REPAIRING;
\* at most one AGV is under repair at any time: the end of a repair changes the
\* target AGV and no other.
C37_UnderRepair == {a \in AGVIds : fixer.state = "REPAIRING" /\ fixer.target_agv = a}

C37_FixerAtBoundary ==
  /\ [](phase = "check" =>
          /\ fixer.state \in {"IDLE", "MOVING_TO_TARGET", "REPAIRING", "RETURNING"}
          /\ fixer.state = "IDLE" => fixer.location = fixer.home_loc
          /\ fixer.target_agv # None <=> fixer.state \in {"MOVING_TO_TARGET", "REPAIRING"}
          /\ fixer.target_agv # None => fixer.target_agv \in AGVIds
          /\ fixer.state = "REPAIRING" <=> pc[FIX] = "repair")
  /\ [](Cardinality(C37_UnderRepair) <= 1)
  /\ [][\A a \in AGVIds :
          (active = FIX /\ agvs'[a] # agvs[a]) =>
            /\ pc[FIX] = "repair"
            /\ C37_UnderRepair = {a}
            /\ agvs'[a] = Repaired(agvs[a])]_vars

\* a tick boundary at which the fixer is REPAIRING one BROKEN AGV while the other
\* one is BROKEN too and waits
C37_Witness ==
  /\ phase = "check"
  /\ fixer.state = "REPAIRING"
  /\ fixer.location # fixer.home_loc
  /\ \E a, b \in AGVIds :
       /\ a # b
       /\ C37_UnderRepair = {a}
       /\ agvs[a].state = "BROKEN" /\ agvs[b].state = "BROKEN"

\* ---- every agent suspends: iterations per resumption and the return of env.run ----
\* how far a running agent is from its next yield: the iterations it can still
\* begin before it suspends count down from 3 as this rank goes up.  The statements
\* after a harvest, unload or repair wait go on into the next iteration (rank 1);
\* an IDLE AGV may take a decision without a yield (rank 2); an IDLE fixer may be
\* sent out (rank 1) and a MOVING_TO_TARGET fixer may arrive and start REPAIRING
\* (rank 2) without a yield; every other iteration yields (rank 3)
C38_Rank(p) ==
  IF p = FIX
    THEN CASE pc[FIX] = "repair" -> 1
           [] fixer.state = "IDLE" -> 1
           [] fixer.state = "MOVING_TO_TARGET" -> 2
           [] OTHER -> 3
    ELSE CASE pc[p] \in {"harvest", "unload"} -> 1
           [] agvs[p].state = "IDLE" -> 2
           [] OTHER -> 3

\* the events env.run(until = sim_time + 1) has still to process
C38_Due == Cardinality({i \in 1 .. Len(queue) : queue[i].time < sim_time + 1})

\* the work left inside one call of env.run: the due events, and the iterations the
\* running agent can still begin
C38_Measure == 4 * C38_Due + (IF active = None THEN 0 ELSE 4 - C38_Rank(active))

\* C38: no agent loops without suspending.  Every step of a running agent either
\* suspends it for at least one tick (a timeout of 1 or more is scheduled for it) or
\* keeps it running at the same instant with a strictly higher rank, and ranks are
\* 1, 2 or 3: an AGV and the fixer execute at most three consecutive iterations and
\* then wait at least one tick.  Each agent has exactly one pending event unless it
\* is running, no event is due before the present instant, virtual time never goes
\* back, and every call env.run(until = sim_time + 1) returns, with sim_time advanced
\* by one: inside the call some step is always possible and every step but the
\* return lowers the work left, which is never negative.
C38_AgentsSuspend ==
  /\ [][\A p \in Procs :
          active = p =>
            \/ /\ active' = None
               /\ \E i \in 1 .. Len(queue') :
                    queue'[i].proc = p /\ queue'[i].time >= now + 1
            \/ /\ active' = p
               /\ C38_Rank(p)' > C38_Rank(p)
               /\ queue' = queue /\ now' = now]_vars
  /\ [](\A p \in AGVIds \cup {FIX} :
          /\ C38_Rank(p) \in 1 .. 3
          /\ Cardinality({i \in 1 .. Len(queue) : queue[i].proc = p})
               = IF active = p THEN 0 ELSE 1)
  /\ [](\A i \in 1 .. Len(queue) : queue[i].time >= now)
  /\ [][now' >= now /\ sim_time' >= sim_time]_vars
  /\ [][phase = "run" /\ phase' # "run" => phase' = "check" /\ sim_time' = sim_time + 1]_vars
  /\ [][phase = "run" /\ phase' = "run" => C38_Measure' < C38_Measure]_vars
  /\ [](phase = "run" => C38_Measure >= 0 /\ ENABLED Next)

\* the reactive fixer has executed three iterations in one resumption: sent out from
\* its station to a BROKEN AGV within one move, arrived, and started the repair wait
\* at the same instant
C38_Witness ==
  /\ fix_strategy = "reactive"
  /\ active = None /\ pc[FIX] = "repair"
  /\ fixer.state = "REPAIRING" /\ fixer.repairing_since = now
  /\ fixer.location # fixer.home_loc
  /\ get_distance(fixer.location, fixer.home_loc) <= FIX_VEHICLE_SPEED
  /\ agvs[fixer.target_agv].state = "BROKEN"

\* ---- farm variant: what a tray holds while it waits ----
\* what tray k's processes hold: a planting-station slot, an AGV, a harvest-station slot
C39_Holds(k) ==
  (IF k \in planting_stations.users THEN {"planting_station"} ELSE {})
    \cup (IF trays[k].agv # None THEN {"agv"} ELSE {})
    \cup (IF k \in harvest_stations.users THEN {"harvest_station"} ELSE {})

\* the positions at which a tray waits for a station, an AGV or the shelf
C39_Waits == {"plant_wait", "agv_wait", "shelf_put_wait", "shelf_get_wait", "harvest_wait"}

\* C39: in the farm variant a tray process holds at most one of planting-station
\* slot, AGV and harvest-station slot at a time, and never waits for a station, an
\* AGV or shelf space while it holds one; every holder has its next step scheduled
\* (a duration or an immediate resumption), and every AGV is either in the fleet store
\* or held by exactly one tray.  Hence there is no deadlock: while the run lasts an
\* event is pending and a step is possible; and no tray ever waits at the shelf: its
\* get finds the unit its own put has stored.
C39_NoHoldAndWait ==
  /\ \A k \in TrayIds :
       /\ Cardinality(C39_Holds(k)) <= 1
       /\ trays[k].pc \in C39_Waits => C39_Holds(k) = {}
       /\ C39_Holds(k) # {} =>
            \E i \in 1 .. Len(env_queue) :
              env_queue[i].kind = "resume" /\ env_queue[i].proc = k
       /\ trays[k].pc \notin {"shelf_put_wait", "shelf_get_wait"}
       /\ trays[k].agv # None => trays[k].agv \in FarmAGVIds
  /\ shelves.get_queue = <<>> /\ shelves.put_queue = <<>>
  /\ \A a \in FarmAGVIds :
       Cardinality({i \in 1 .. Len(agv_fleet.items) : agv_fleet.items[i] = a})
         + Cardinality({k \in TrayIds : trays[k].agv = a}) = 1
  /\ running => (env_queue # <<>> /\ ENABLED NextFarm)

\* one tray holds an AGV on its way from the shelf while a second one waits for an AGV,
\* a third holds a planting station and a fourth waits for one
C39_Witness ==
  /\ running
  /\ \E k1, k2, k3, k4 \in TrayIds :
       /\ trays[k1].pc = "moving" /\ trays[k1].leg = 2 /\ C39_Holds(k1) = {"agv"}
       /\ trays[k2].pc = "agv_wait"
       /\ C39_Holds(k3) = {"planting_station"}
       /\ trays[k4].pc = "plant_wait"

\* ---- farm variant: utilization ----
\* C40: in the farm variant each AGV's utilization_time never exceeds the elapsed
\* simulation time: it is never negative, the finished moves it adds up lie before
\* the start of the move under way, it grows only at an arrival, by the time since
\* that move began (the move's duration), and an AGV performs one move at a time (a
\* moving AGV is held by exactly one tray).  So every agv_utilization value computed
\* at the end of a run, utilization_time / until, lies in [0, 1].
C40_UtilizationBounded ==
  /\ [](\A a \in FarmAGVIds :
          /\ 0 <= farm_agvs[a].utilization_time
          /\ farm_agvs[a].utilization_time <= env_now
          /\ farm_agvs[a].state # "IDLE" =>
               /\ farm_agvs[a].utilization_time <= farm_agvs[a].move_start_time
               /\ farm_agvs[a].move_start_time <= env_now
               /\ Cardinality({k \in TrayIds : trays[k].agv = a /\ trays[k].pc = "moving"}) = 1)
  /\ [][\A a \in FarmAGVIds :
          farm_agvs'[a].utilization_time # farm_agvs[a].utilization_time =>
            /\ farm_agvs[a].state # "IDLE" /\ farm_agvs'[a].state = "IDLE"
            /\ farm_agvs'[a].utilization_time
                 = farm_agvs[a].utilization_time + (env_now' - farm_agvs[a].move_start_time)
            /\ env_now' - farm_agvs[a].move_start_time = farm_agvs[a].move_duration]_vars
  /\ [](~running =>
          \A a \in FarmAGVIds :
            /\ agv_utilization[a].den = until /\ until > 0
            /\ 0 <= agv_utilization[a].num
            /\ agv_utilization[a].num <= agv_utilization[a].den
            /\ agv_utilization[a].num = farm_agvs[a].utilization_time)

\* a run has returned while an AGV that has finished moves before is on a move: the
\* move under way is not counted
C40_Witness ==
  /\ ~running
  /\ \E a \in FarmAGVIds :
       /\ farm_agvs[a].state # "IDLE"
       /\ agv_utilization[a].num > 0
       /\ agv_utilization[a].num < agv_utilization[a].den

====
